---------------------------- MODULE Spec2Model ----------------------------
(***************************************************************************)
(* Clinical RAG Active Verifiability: the evidence verifiability pipeline  *)
(* (conflict tagging, evidence prioritisation, claim attestation, CRTS).   *)
(*                                                                         *)
(* Text is a sequence of one-character strings, so that substring tests,   *)
(* stripping, splitting and case folding are computed as the Python code   *)
(* computes them.                                                          *)
(* A Python dict is a sequence of [k, v] records with pairwise distinct    *)
(* keys, in insertion order.                                               *)
(***************************************************************************)
EXTENDS Integers, Sequences, FiniteSets, TLC

(* ------------------------------ bounds -------------------------------- *)
\* longest document list handed to a component
MaxDocs == 4
\* longest document list handed to prioritise_documents on its own
MaxSortDocs == 3
\* most candidate claims in one backend response
MaxCand == 8
\* most calls of the logging functions whose rows the log files hold
MaxLog == 4
\* largest count handed to compute_crts (claims, detected and surfaced risks)
MaxCount == 4

(* --------------------------- Python strings --------------------------- *)
\* The alphabet: the characters U+0000..U+00FF, Latin1[n + 1] being chr(n),
\* and the white space above them.  A character without a printed form is
\* written "<U+XXXX>" with its code point, the backspace U+0008 "<BS>".
Latin1 ==
    <<"<U+0000>", "<U+0001>", "<U+0002>", "<U+0003>", "<U+0004>", "<U+0005>",
      "<U+0006>", "<U+0007>", "<BS>", "\t", "\n", "<U+000B>", "\f", "\r",
      "<U+000E>", "<U+000F>", "<U+0010>", "<U+0011>", "<U+0012>", "<U+0013>",
      "<U+0014>", "<U+0015>", "<U+0016>", "<U+0017>", "<U+0018>", "<U+0019>",
      "<U+001A>", "<U+001B>", "<U+001C>", "<U+001D>", "<U+001E>", "<U+001F>",
      " ", "!", "\"", "#", "$", "%", "&", "'", "(", ")", "*", "+", ",", "-",
      ".", "/", "0", "1", "2", "3", "4", "5", "6", "7", "8", "9", ":", ";",
      "<", "=", ">", "?", "@", "A", "B", "C", "D", "E", "F", "G", "H", "I",
      "J", "K", "L", "M", "N", "O", "P", "Q", "R", "S", "T", "U", "V", "W",
      "X", "Y", "Z", "[", "\\", "]", "^", "_", "<U+0060>", "a", "b", "c",
      "d", "e", "f", "g", "h", "i", "j", "k", "l", "m", "n", "o", "p", "q",
      "r", "s", "t", "u", "v", "w", "x", "y", "z", "{", "|", "}", "~",
      "<U+007F>", "<U+0080>", "<U+0081>", "<U+0082>", "<U+0083>", "<U+0084>",
      "<U+0085>", "<U+0086>", "<U+0087>", "<U+0088>", "<U+0089>", "<U+008A>",
      "<U+008B>", "<U+008C>", "<U+008D>", "<U+008E>", "<U+008F>", "<U+0090>",
      "<U+0091>", "<U+0092>", "<U+0093>", "<U+0094>", "<U+0095>", "<U+0096>",
      "<U+0097>", "<U+0098>", "<U+0099>", "<U+009A>", "<U+009B>", "<U+009C>",
      "<U+009D>", "<U+009E>", "<U+009F>", "<U+00A0>", "¡", "¢", "£", "¤",
      "¥", "¦", "§", "¨", "©", "ª", "«", "¬", "<U+00AD>", "®", "¯", "°", "±",
      "²", "³", "´", "µ", "¶", "·", "¸", "¹", "º", "»", "¼", "½", "¾", "¿",
      "À", "Á", "Â", "Ã", "Ä", "Å", "Æ", "Ç", "È", "É", "Ê", "Ë", "Ì", "Í",
      "Î", "Ï", "Ð", "Ñ", "Ò", "Ó", "Ô", "Õ", "Ö", "×", "Ø", "Ù", "Ú", "Û",
      "Ü", "Ý", "Þ", "ß", "à", "á", "â", "ã", "ä", "å", "æ", "ç", "è", "é",
      "ê", "ë", "ì", "í", "î", "ï", "ð", "ñ", "ò", "ó", "ô", "õ", "ö", "÷",
      "ø", "ù", "ú", "û", "ü", "ý", "þ", "ÿ">>
HighSpaces ==
    <<"<U+1680>", "<U+2000>", "<U+2001>", "<U+2002>", "<U+2003>", "<U+2004>",
      "<U+2005>", "<U+2006>", "<U+2007>", "<U+2008>", "<U+2009>", "<U+200A>",
      "<U+2028>", "<U+2029>", "<U+202F>", "<U+205F>", "<U+3000>">>
HighSpaceCodes ==
    <<5760, 8192, 8193, 8194, 8195, 8196, 8197, 8198, 8199, 8200, 8201, 8202,
      8232, 8233, 8239, 8287, 12288>>
Range(s) == {s[i] : i \in 1..Len(s)}
Chr(n) == Latin1[n + 1]
\* ord(c)
CodeOf ==
    [c \in Range(Latin1) \cup Range(HighSpaces) |->
        IF c \in Range(Latin1) THEN (CHOOSE i \in 1..256 : Latin1[i] = c) - 1
        ELSE HighSpaceCodes[CHOOSE i \in 1..Len(HighSpaces) : HighSpaces[i] = c]]
CharCode(c) == CodeOf[c]

\* str.isspace(), \s of the re module: what str.strip() removes
WS == {Chr(n) : n \in (9..13) \cup (28..32) \cup {133, 160}} \cup Range(HighSpaces)
\* the white space int() ignores around a number: not U+001C..U+001F
IntWS == WS \ {Chr(n) : n \in 28..31}
Digits == <<"0", "1", "2", "3", "4", "5", "6", "7", "8", "9">>
LowerAlpha == <<"a", "b", "c", "d", "e", "f", "g", "h", "i", "j", "k", "l", "m",
                "n", "o", "p", "q", "r", "s", "t", "u", "v", "w", "x", "y", "z">>
UpperAlpha == <<"A", "B", "C", "D", "E", "F", "G", "H", "I", "J", "K", "L", "M",
                "N", "O", "P", "Q", "R", "S", "T", "U", "V", "W", "X", "Y", "Z">>
\* \w of the re module (str patterns): the characters with str.isalnum(),
\* and "_"
WordChars ==
    {Chr(n) : n \in (48..57) \cup (65..90) \cup {95} \cup (97..122)
                    \cup {170, 178, 179, 181, 185, 186} \cup (188..190)
                    \cup (192..214) \cup (216..246) \cup (248..255)}

\* str.lower(): the lower-case letter of each upper-case letter; the same
\* folding is what re.I compares with on this alphabet
LowerOf ==
    [c \in {Chr(n) : n \in (65..90) \cup (192..214) \cup (216..222)} |->
        Chr(CodeOf[c] + 32)]
LowerChar(c) == IF c \in DOMAIN LowerOf THEN LowerOf[c] ELSE c
lower(t) == [i \in 1..Len(t) |-> LowerChar(t[i])]

\* Python's `pat in text`
Contains(text, pat) ==
    \/ pat = <<>>
    \/ \E i \in 1..(Len(text) - Len(pat) + 1) :
          text[i] = pat[1] /\ SubSeq(text, i, i + Len(pat) - 1) = pat

\* str.endswith((".", "!", "?"))
EndsWithTerminal(t) == Len(t) > 0 /\ t[Len(t)] \in {".", "!", "?"}

\* t without the characters of `blank` at its two ends
Stripped(t, blank) ==
    IF \A i \in 1..Len(t) : t[i] \in blank THEN <<>>
    ELSE SubSeq(t,
                CHOOSE i \in 1..Len(t) :
                    t[i] \notin blank /\ \A j \in 1..(i - 1) : t[j] \in blank,
                CHOOSE i \in 1..Len(t) :
                    t[i] \notin blank /\ \A j \in (i + 1)..Len(t) : t[j] \in blank)
\* str.strip(): the text from the first to the last non-blank character
strip(t) == Stripped(t, WS)

\* str(x) < str(y) on Python strings: lexicographic by code point
RECURSIVE StrLess(_, _)
StrLess(a, b) ==
    IF b = <<>> THEN FALSE
    ELSE IF a = <<>> THEN TRUE
    ELSE IF Head(a) = Head(b) THEN StrLess(Tail(a), Tail(b))
    ELSE CharCode(Head(a)) < CharCode(Head(b))

(* ---------------------------- Python dicts ---------------------------- *)
Keys(d) == [i \in 1..Len(d) |-> d[i].k]
HasKey(d, key) == \E i \in 1..Len(d) : d[i].k = key
Get(d, key) == d[CHOOSE i \in 1..Len(d) : d[i].k = key].v
\* d[key] = val: a present key keeps its position, a new key is appended
DictSet(d, key, val) ==
    IF HasKey(d, key)
    THEN [i \in 1..Len(d) |-> IF d[i].k = key THEN [k |-> key, v |-> val] ELSE d[i]]
    ELSE Append(d, [k |-> key, v |-> val])
\* sequence[:n]
Take(s, n) == SubSeq(s, 1, IF Len(s) < n THEN Len(s) ELSE n)

(* ------------------- documents supplied by retrieval ------------------ *)
\* sentence-like spans the abstracts are built from
S_SUP ==
    <<"T", "h", "e", " ", "d", "r", "u", "g", " ", "i", "m", "p", "r", "o", "v", "e", "d", " ", "s", "u", "r", "v", "i", "v", "a", "l", " ", "i", "n", " ", "a", "l", "l", " ", "p", "a", "t", "i", "e", "n", "t", "s", ".">>
S_RISK ==
    <<"S", "i", "g", "n", "i", "f", "i", "c", "a", "n", "t", " ", "a", "d", "v", "e", "r", "s", "e", " ", "e", "v", "e", "n", "t", "s", " ", "w", "e", "r", "e", " ", "r", "e", "p", "o", "r", "t", "e", "d", ".">>
S_NEU ==
    <<"P", "a", "t", "i", "e", "n", "t", "s", " ", "w", "e", "r", "e", " ", "e", "n", "r", "o", "l", "l", "e", "d", " ", "a", "t", " ", "t", "h", "r", "e", "e", " ", "s", "i", "t", "e", "s", "!">>
S_SHORT ==
    <<"n", "=", "1", "2", ".">>
S_30 ==
    <<"D", "o", "s", "e", " ", "w", "a", "s", " ", "5", " ", "m", "g", " ", "t", "w", "i", "c", "e", " ", "e", "v", "e", "r", "y", " ", "d", "a", "y", ".">>
S_31 ==
    <<"D", "o", "s", "e", " ", "w", "a", "s", " ", "1", "0", " ", "m", "g", " ", "t", "w", "i", "c", "e", " ", "e", "v", "e", "r", "y", " ", "d", "a", "y", ".">>
S_REG ==
    <<"P", "h", "a", "r", "m", "a", "c", "o", "v", "i", "g", "i", "l", "a", "n", "c", "e", " ", "r", "e", "g", "i", "s", "t", "r", "y", " ", "d", "a", "t", "a", " ", "w", "e", "r", "e", " ", "u", "s", "e", "d", "?">>
S_NOP ==
    <<"F", "u", "r", "t", "h", "e", "r", " ", "t", "r", "i", "a", "l", "s", " ", "m", "u", "s", "t", " ", "c", "o", "n", "f", "i", "r", "m", " ", "t", "h", "e", " ", "b", "e", "n", "e", "f", "i", "t">>
\* abstracts
A1 == S_SUP \o <<" ">> \o S_RISK
A2 == S_RISK \o <<" ", " ">> \o S_SHORT \o <<" ">> \o S_NEU \o <<" ">> \o S_SUP
A3 == <<>>
A4 == S_REG \o <<"\r", "\n">> \o S_NOP
A5 == <<"<U+00A0>">> \o S_SUP \o <<"\t">>
A6 == S_30 \o <<" ">> \o S_31
A7 == S_SHORT
A8 == S_NEU \o <<" ">> \o S_31
\* the documents, as fetch_abstracts builds them (pmid and year are strings)
Doc1 ==
    [pmid |-> <<"9">>,
     title |-> <<"D", "r", "u", "g", " ", "t", "r", "i", "a", "l">>,
     abstract |-> A1,
     publication_type |-> <<"Randomized Controlled Trial">>,
     year |-> <<"2", "0", "2", "3">>]
Doc2 ==
    [pmid |-> <<"1", "0">>,
     title |-> <<"S", "a", "f", "e", "t", "y", " ", "R", "i", "s", "k", " ", "r", "e", "v", "i", "e", "w">>,
     abstract |-> A2,
     publication_type |-> <<"Systematic Review", "Meta-Analysis">>,
     year |-> <<"2", "0", "2", "0">>]
Doc3 ==
    [pmid |-> <<"1", "1">>,
     title |-> <<>>,
     abstract |-> A3,
     publication_type |-> <<>>,
     year |-> <<>>]
Doc4 ==
    [pmid |-> <<"2">>,
     title |-> <<"R", "e", "g", "i", "s", "t", "r", "y">>,
     abstract |-> A4,
     publication_type |-> <<"Journal Article">>,
     year |-> <<"2", "0", "1", "8">>]
Doc5 ==
    [pmid |-> <<"3", "0">>,
     title |-> <<"D", "r", "u", "g", " ", "t", "r", "i", "a", "l">>,
     abstract |-> A5,
     publication_type |-> <<"Randomized Controlled Trial">>,
     year |-> <<"2", "0", "2", "2">>]
Doc6 ==
    [pmid |-> <<"4">>,
     title |-> <<"D", "o", "s", "i", "n", "g">>,
     abstract |-> A6,
     publication_type |-> <<>>,
     year |-> <<"2", "0", "1", "9">>]
Doc7 ==
    [pmid |-> <<"1", "0", "0">>,
     title |-> <<"P", "i", "l", "o", "t", " ", "<BS>", "h", "a", "r", "m", "f", "u", "l">>,
     abstract |-> A7,
     publication_type |-> <<>>,
     year |-> <<"n", "/", "a">>]
Doc8 ==
    [pmid |-> <<"5">>,
     title |-> <<"D", "o", "s", "i", "n", "g">>,
     abstract |-> A8,
     publication_type |-> <<>>,
     year |-> <<"2", "0", "2", "1">>]
DocPool == <<Doc1, Doc2, Doc3, Doc4, Doc5, Doc6, Doc7, Doc8>>
\* the queries typed by the user
Query1 ==
    <<>>
Query2 ==
    <<"d", "r", "u", "g", " ", "s", "u", "r", "v", "i", "v", "a", "l">>
Query3 ==
    <<"D", "o", "s", "e", ",", " ", "r", "i", "s", "k", "!">>
QueryPool == {Query1, Query2, Query3}

(* ------------------ modules/conflict_detection.py --------------------- *)
\* Each regular expression of the lexicon is given by the shortest strings it
\* matches: an unanchored search finds the expression in a text exactly when
\* the text contains one of them (the optional groups only lengthen a match).
SUPPORTIVE_TERMS ==
    <<\* improv(e|ed|ement)
      {<<"i", "m", "p", "r", "o", "v", "e">>},
      \* benefit(s|ed)?
      {<<"b", "e", "n", "e", "f", "i", "t">>},
      \* effective|efficacy
      {<<"e", "f", "f", "e", "c", "t", "i", "v", "e">>,
       <<"e", "f", "f", "i", "c", "a", "c", "y">>},
      \* survival advantage
      {<<"s", "u", "r", "v", "i", "v", "a", "l", " ", "a", "d", "v", "a", "n", "t", "a", "g", "e">>},
      \* response rate
      {<<"r", "e", "s", "p", "o", "n", "s", "e", " ", "r", "a", "t", "e">>},
      \* superior(ity)?
      {<<"s", "u", "p", "e", "r", "i", "o", "r">>}>>
RISK_TERMS ==
    <<\* toxicit(y|ies)
      {<<"t", "o", "x", "i", "c", "i", "t", "y">>,
       <<"t", "o", "x", "i", "c", "i", "t", "i", "e", "s">>},
      \* adverse( event|s)?
      {<<"a", "d", "v", "e", "r", "s", "e">>},
      \* risk(s)?
      {<<"r", "i", "s", "k">>},
      \* harm(s|ful)?
      {<<"h", "a", "r", "m">>},
      \* side effect(s)?
      {<<"s", "i", "d", "e", " ", "e", "f", "f", "e", "c", "t">>},
      \* complication(s)?
      {<<"c", "o", "m", "p", "l", "i", "c", "a", "t", "i", "o", "n">>},
      \* safety concern(s)?
      {<<"s", "a", "f", "e", "t", "y", " ", "c", "o", "n", "c", "e", "r", "n">>},
      \* contraindicat(ed|ion)
      {<<"c", "o", "n", "t", "r", "a", "i", "n", "d", "i", "c", "a", "t", "e", "d">>,
       <<"c", "o", "n", "t", "r", "a", "i", "n", "d", "i", "c", "a", "t", "i", "o", "n">>}>>
\* re.compile("|".join(TERMS), re.I).findall(text) is non-empty
LexiconSearch(lexicon, text) ==
    LET folded == lower(text)
    IN \E i \in 1..Len(lexicon) : \E w \in lexicon[i] : Contains(folded, w)

\* f"{title} {abstract}"
TitleAbstract(doc) == doc.title \o <<" ">> \o doc.abstract

\* The tag of one document.  support_terms and risk_terms (the deduplicated
\* group captures of findall, shown in tooltips only) are not carried.
tag_document(doc) ==
    [pmid |-> doc.pmid,
     supportive |-> LexiconSearch(SUPPORTIVE_TERMS, TitleAbstract(doc)),
     risk |-> LexiconSearch(RISK_TERMS, TitleAbstract(doc))]

\* the loop of detect_conflicts over documents[1..n]
RECURSIVE ConflictLoop(_, _)
ConflictLoop(documents, n) ==
    IF n = 0
    THEN [supportive |-> 0, risk |-> 0, doc_tags |-> <<>>]
    ELSE LET acc == ConflictLoop(documents, n - 1)
             tags == tag_document(documents[n])
         IN [supportive |-> acc.supportive + (IF tags.supportive THEN 1 ELSE 0),
             risk |-> acc.risk + (IF tags.risk THEN 1 ELSE 0),
             doc_tags |-> Append(acc.doc_tags, tags)]

\* a summary that reports a conflict as soon as one of the counts is positive
detect_conflicts_EitherCount(documents) ==
    LET acc == ConflictLoop(documents, Len(documents))
    IN [detected |-> acc.supportive > 0 \/ acc.risk > 0,
        supportive |-> acc.supportive,
        risk |-> acc.risk,
        doc_tags |-> acc.doc_tags]

detect_conflicts(documents) ==
    LET acc == ConflictLoop(documents, Len(documents))
    IN [detected |-> acc.supportive > 0 /\ acc.risk > 0,
        supportive |-> acc.supportive,
        risk |-> acc.risk,
        doc_tags |-> acc.doc_tags]

(* -------------------- modules/evidence_scoring.py --------------------- *)
\* Scores are in thousandths: every term of the sum is a multiple of 0.001 and
\* score_document rounds to three decimals, which removes the float error of
\* the additions.
SAFETY_TERMS ==
    <<<<"a", "d", "v", "e", "r", "s", "e">>,
      <<"t", "o", "x", "i", "c", "i", "t", "y">>,
      <<"c", "o", "n", "t", "r", "a", "i", "n", "d", "i", "c", "a", "t">>,
      <<"m", "o", "r", "t", "a", "l", "i", "t", "y">>,
      <<"r", "i", "s", "k">>,
      <<"h", "a", "r", "m">>,
      <<"s", "i", "d", "e", " ", "e", "f", "f", "e", "c", "t">>,
      <<"c", "o", "m", "p", "l", "i", "c", "a", "t", "i", "o", "n">>,
      <<"b", "l", "a", "c", "k", " ", "b", "o", "x">>,
      <<"w", "a", "r", "n", "i", "n", "g">>>>
SAFETY_STUDY_HINTS ==
    <<<<"p", "h", "a", "r", "m", "a", "c", "o", "v", "i", "g", "i", "l", "a", "n", "c", "e">>,
      <<"p", "o", "s", "t", "-", "m", "a", "r", "k", "e", "t", "i", "n", "g">>,
      <<"r", "e", "g", "i", "s", "t", "r", "y">>,
      <<"s", "u", "r", "v", "e", "i", "l", "l", "a", "n", "c", "e">>,
      <<"r", "e", "a", "l", "-", "w", "o", "r", "l", "d">>>>
HIGH_VALUE_TYPES(p) ==
    CASE p = "Randomized Controlled Trial" -> 1000
      [] p = "Systematic Review" -> 1000
      [] p = "Meta-Analysis" -> 900
      [] OTHER -> 0

\* re.search(rf"<BS>{re.escape(t)}\w*", text, re.I): the pattern in the source
\* begins with a literal backspace character, \w* also matches the empty
\* string, and re.I folds the case of the term and of the text.  A term
\* counts once for each place it has in the list.
_term_hits(text, terms) ==
    LET folded == lower(text)
    IN Cardinality({i \in 1..Len(terms) :
                       Contains(folded, <<"<BS>">> \o lower(terms[i]))})

\* re.split(r"\W+", query) without its empty pieces: the maximal runs of \w
RECURSIVE WordRuns(_, _)
WordRuns(t, cur) ==
    IF t = <<>> THEN (IF cur = <<>> THEN <<>> ELSE <<cur>>)
    ELSE IF Head(t) \in WordChars THEN WordRuns(Tail(t), Append(cur, Head(t)))
    ELSE (IF cur = <<>> THEN <<>> ELSE <<cur>>) \o WordRuns(Tail(t), <<>>)
QueryTerms(text) == WordRuns(text, <<>>)

\* int(year) of a Python string: white space around it is ignored (IntWS),
\* then an optional sign and decimal digits, with single underscores allowed
\* between digits; anything else raises ValueError.
Unsigned(s) == IF s # <<>> /\ s[1] \in {"+", "-"} THEN Tail(s) ELSE s
IsInt(y) ==
    LET b == Unsigned(Stripped(y, IntWS))
    IN /\ b # <<>>
       /\ \A i \in 1..Len(b) : b[i] \in Range(Digits) \cup {"_"}
       /\ b[1] # "_" /\ b[Len(b)] # "_"
       /\ \A i \in 1..(Len(b) - 1) : ~(b[i] = "_" /\ b[i + 1] = "_")
RECURSIVE DigitsValue(_)
DigitsValue(b) ==
    IF b = <<>> THEN 0
    ELSE IF b[Len(b)] = "_" THEN DigitsValue(SubSeq(b, 1, Len(b) - 1))
    ELSE 10 * DigitsValue(SubSeq(b, 1, Len(b) - 1)) + (CharCode(b[Len(b)]) - CharCode("0"))
IntOf(s) == IF s # <<>> /\ s[1] = "-" THEN 0 - DigitsValue(Tail(s))
            ELSE DigitsValue(Unsigned(s))

RecencyBoost(doc) ==
    IF ~IsInt(doc.year) THEN 0
    ELSE IF IntOf(Stripped(doc.year, IntWS)) >= 2022 THEN 400
    ELSE IF IntOf(Stripped(doc.year, IntWS)) >= 2019 THEN 250
    ELSE 0

RECURSIVE SumSeq(_)
SumSeq(s) == IF s = <<>> THEN 0 ELSE Head(s) + SumSeq(Tail(s))

score_document(doc, query_terms) ==
    LET text == lower(TitleAbstract(doc))
    IN SumSeq([i \in 1..Len(query_terms) |->
                  IF query_terms[i] # <<>> /\ Contains(text, lower(query_terms[i]))
                  THEN 200 ELSE 0])
       + SumSeq([i \in 1..Len(doc.publication_type) |->
                  HIGH_VALUE_TYPES(doc.publication_type[i])])
       + 250 * _term_hits(text, SAFETY_TERMS)
       + 300 * _term_hits(text, SAFETY_STUDY_HINTS)
       + RecencyBoost(doc)

\* a sort that puts the lowest score first
KeyLess_Ascending(a, b) ==
    \/ a.priority_score < b.priority_score
    \/ a.priority_score = b.priority_score /\ StrLess(a.pmid, b.pmid)

\* the sort key (-priority_score, str(pmid)) compared as Python compares tuples
KeyLess(a, b) ==
    \/ a.priority_score > b.priority_score
    \/ a.priority_score = b.priority_score /\ StrLess(a.pmid, b.pmid)

\* a sort by score alone, which leaves documents of equal score as supplied
RECURSIVE Insert_ScoreOnly(_, _)
Insert_ScoreOnly(sorted, d) ==
    IF sorted = <<>> THEN <<d>>
    ELSE IF d.priority_score > Head(sorted).priority_score THEN <<d>> \o sorted
    ELSE <<Head(sorted)>> \o Insert_ScoreOnly(Tail(sorted), d)

\* list.sort(key=...): a stable sort, here by insertion from the left
RECURSIVE Insert(_, _)
Insert(sorted, d) ==
    IF sorted = <<>> THEN <<d>>
    ELSE IF KeyLess(d, Head(sorted)) THEN <<d>> \o sorted
    ELSE <<Head(sorted)>> \o Insert(Tail(sorted), d)
RECURSIVE StableSort(_)
StableSort(docs) ==
    IF docs = <<>> THEN <<>>
    ELSE Insert(StableSort(SubSeq(docs, 1, Len(docs) - 1)), docs[Len(docs)])

\* score_document for every document and query of the pools, evaluated once
ScoreTable ==
    [q \in QueryPool |->
        [doc \in Range(DocPool) |-> score_document(doc, QueryTerms(q))]]

\* d['priority_score'] = score_document(d, query_terms): the score is read
\* from ScoreTable; d may already carry a priority_score, which is replaced
Scored(d, query) ==
    LET doc == [pmid |-> d.pmid, title |-> d.title, abstract |-> d.abstract,
                publication_type |-> d.publication_type, year |-> d.year]
    IN [pmid |-> d.pmid, title |-> d.title, abstract |-> d.abstract,
        publication_type |-> d.publication_type, year |-> d.year,
        priority_score |-> ScoreTable[query][doc]]

prioritise_documents(documents, query) ==
    StableSort([i \in 1..Len(documents) |-> Scored(documents[i], query)])

(* ----------------------- modules/attestation.py ----------------------- *)
\* len(p.strip()) > MinSpanLen keeps a span
MinSpanLen == 30
\* documents[:TopDocs], sents[:SpansPerDoc], synthesis_parts[:SynthesisParts]
TopDocs == 3
SpansPerDoc == 2
SynthesisParts == 2
\* list(clean_att.items())[:MaxClaims]
MaxClaims == 6
DeterministicMarker ==
    <<" ", "(", "D", "e", "t", "e", "r", "m", "i", "n", "i", "s", "t", "i", "c", " ", "E", "x", "t", "r", "a", "c", "t", "i", "o", "n", ")">>

\* re.split(r"(?<=[.!?])\s+", t): a separator is a maximal run of white space
\* that starts right after a sentence-terminal character.
SkipWS(t, i) ==
    IF \A j \in i..Len(t) : t[j] \in WS THEN Len(t) + 1
    ELSE CHOOSE j \in i..Len(t) : t[j] \notin WS /\ \A k \in i..(j - 1) : t[k] \in WS
\* the first position from `from` on where a separator starts, or 0
NextSeparator(t, from) ==
    LET IsStart(i) == i > 1 /\ t[i] \in WS /\ t[i - 1] \in {".", "!", "?"}
    IN IF \A i \in from..Len(t) : ~IsStart(i) THEN 0
       ELSE CHOOSE i \in from..Len(t) : IsStart(i) /\ \A j \in from..(i - 1) : ~IsStart(j)
\* the pieces of t from position `from` on
RECURSIVE SplitAt(_, _)
SplitAt(t, from) ==
    LET i == NextSeparator(t, from)
    IN IF i = 0 THEN <<SubSeq(t, from, Len(t))>>
       ELSE <<SubSeq(t, from, i - 1)>> \o SplitAt(t, SkipWS(t, i))

_split_sentences_AtLeast30(text) ==
    LET parts == SplitAt(strip(text), 1)
    IN SelectSeq([i \in 1..Len(parts) |-> strip(parts[i])],
                 LAMBDA p : Len(p) >= MinSpanLen)

_split_sentences(text) ==
    LET parts == SplitAt(strip(text), 1)
    IN SelectSeq([i \in 1..Len(parts) |-> strip(parts[i])],
                 LAMBDA p : Len(p) > MinSpanLen)

\* claim if claim.endswith((".", "!", "?")) else claim + "."
ClaimText(s) == IF EndsWithTerminal(s) THEN s ELSE s \o <<".">>

\* {str(d.get("pmid")): d for d in documents}
RECURSIVE DocsByPmid(_)
DocsByPmid(documents) ==
    IF documents = <<>> THEN <<>>
    ELSE LET d == documents[Len(documents)]
         IN DictSet(DocsByPmid(SubSeq(documents, 1, Len(documents) - 1)), d.pmid, d)

\* a validation that checks the cited id but not the quotation
CandidatePasses_AnyQuote(meta, docs_by_pmid) ==
    /\ strip(meta.pmid) # <<>>
    /\ HasKey(docs_by_pmid, strip(meta.pmid))

\* One candidate of the "attestations" object of the backend's JSON is
\* [k |-> claim text, v |-> meta], where meta is [is_dict, pmid, source_text]:
\* is_dict is FALSE for a meta that is no JSON object (meta.get raises
\* AttributeError); pmid and source_text are str(meta.get(..., "")).
CandidatePasses(meta, docs_by_pmid) ==
    LET pmid == strip(meta.pmid)
        src_txt == strip(meta.source_text)
    IN /\ pmid # <<>>
       /\ src_txt # <<>>
       /\ HasKey(docs_by_pmid, pmid)
       /\ Contains(Get(docs_by_pmid, pmid).abstract, src_txt)

\* the loop of _validate_json_claims over att.items()[1..n]
RECURSIVE ValidateLoop(_, _, _)
ValidateLoop(att, n, docs_by_pmid) ==
    IF n = 0 THEN <<>>
    ELSE LET clean_att == ValidateLoop(att, n - 1, docs_by_pmid)
             meta == att[n].v
         IN IF CandidatePasses(meta, docs_by_pmid)
            THEN DictSet(clean_att, ClaimText(att[n].k),
                         [pmid |-> strip(meta.pmid),
                          source_text |-> strip(meta.source_text),
                          document_title |-> Get(docs_by_pmid, strip(meta.pmid)).title])
            ELSE clean_att

\* a validation without the cap on the number of claims
_validate_json_claims_Uncapped(data, docs_by_pmid) ==
    IF \E i \in 1..Len(data.attestations) : ~data.attestations[i].v.is_dict
    THEN [raised |-> TRUE, synthesis |-> <<>>, attestations |-> <<>>]
    ELSE [raised |-> FALSE,
          synthesis |-> strip(data.synthesis),
          attestations |->
              ValidateLoop(data.attestations, Len(data.attestations), docs_by_pmid)]

\* data is the parsed JSON object [synthesis, attestations]; the result is
\* [raised, synthesis, attestations]: raised when some meta is no object.
_validate_json_claims(data, docs_by_pmid) ==
    IF \E i \in 1..Len(data.attestations) : ~data.attestations[i].v.is_dict
    THEN [raised |-> TRUE, synthesis |-> <<>>, attestations |-> <<>>]
    ELSE [raised |-> FALSE,
          synthesis |-> strip(data.synthesis),
          attestations |->
              Take(ValidateLoop(data.attestations, Len(data.attestations), docs_by_pmid),
                   MaxClaims)]

\* the deterministic fallback: the loop over documents[:3][1..n]
RECURSIVE FallbackLoop(_, _)
FallbackLoop(documents, n) ==
    IF n = 0 THEN [attestations |-> <<>>, synthesis_parts |-> <<>>]
    ELSE LET acc == FallbackLoop(documents, n - 1)
             d == documents[n]
             sents == _split_sentences(d.abstract)
             s2 == Take(sents, SpansPerDoc)
             AddSpan(att, s) ==
                 IF HasKey(att, ClaimText(s)) THEN att
                 ELSE DictSet(att, ClaimText(s),
                              [pmid |-> d.pmid, source_text |-> s,
                               document_title |-> d.title])
             att1 == IF Len(s2) >= 1 THEN AddSpan(acc.attestations, s2[1])
                     ELSE acc.attestations
             att2 == IF Len(s2) >= 2 THEN AddSpan(att1, s2[2]) ELSE att1
         IN [attestations |-> att2,
             synthesis_parts |-> IF sents # <<>> THEN Append(acc.synthesis_parts, sents[1])
                                 ELSE acc.synthesis_parts]

\* " ".join(parts)
RECURSIVE JoinSpace(_)
JoinSpace(parts) ==
    IF parts = <<>> THEN <<>>
    ELSE IF Len(parts) = 1 THEN parts[1]
    ELSE parts[1] \o <<" ">> \o JoinSpace(Tail(parts))

DeterministicFallback(documents) ==
    LET top == Take(documents, TopDocs)
        acc == FallbackLoop(top, Len(top))
    IN [synthesis |-> JoinSpace(Take(acc.synthesis_parts, SynthesisParts))
                         \o DeterministicMarker,
        attestations |-> acc.attestations]

\* A backend is [api_key, sdk, response]: api_key is TRUE for a non-empty key,
\* sdk is TRUE when google.generativeai was imported, and response is what the
\* one call of generate_content does:
\*   kind "raise"       the call raises
\*   kind "not_json"    json.loads raises on the text
\*   kind "not_object"  the JSON is no object (data.get raises)
\*   kind "att_not_object"  "attestations" is a non-empty non-object
\*   kind "ok"          a JSON object [synthesis, attestations]
\* has429 tells whether the text of the exception, str(e), holds "429": the
\* text of an API error may, and so may that of a JSONDecodeError, which
\* names the place of the error ("line 1 column 430 (char 429)").
LlmAvailable(backend) == backend.api_key /\ backend.sdk

\* a try block that returns whatever validation left, even nothing
LlmPath_ReturnsEmpty(documents, response) ==
    IF response.kind # "ok" THEN [outcome |-> "except", v |-> <<>>]
    ELSE LET r == _validate_json_claims(response.data, DocsByPmid(documents))
         IN IF r.raised THEN [outcome |-> "except", v |-> <<>>]
            ELSE [outcome |-> "returned", v |-> <<r>>]

\* The outcome of the try block: "returned" with the validated pair,
\* "empty" (no verifiable claim, warning), or "except" (the handler ran).
LlmPath(documents, response) ==
    IF response.kind # "ok" THEN [outcome |-> "except", v |-> <<>>]
    ELSE LET r == _validate_json_claims(response.data, DocsByPmid(documents))
         IN IF r.raised THEN [outcome |-> "except", v |-> <<>>]
            ELSE IF r.attestations # <<>> THEN [outcome |-> "returned", v |-> <<r>>]
            ELSE [outcome |-> "empty", v |-> <<>>]

\* the st.sidebar message of the call, if any
SidebarMessage(outcome, response) ==
    CASE outcome = "empty" -> "warning_no_verifiable_claims"
      [] outcome = "except" /\ response.has429 -> "warning_quota"
      [] outcome = "except" /\ ~response.has429 -> "error_llm"
      [] OTHER -> "none"

\* The call from entry to return, for a backend that answers or raises.  The
\* result is [raised, synthesis, attestations, sidebar]; the query is used by
\* neither path.
generate_with_attestation(query, documents, backend) ==
    LET llm == IF LlmAvailable(backend) THEN LlmPath(documents, backend.response)
               ELSE [outcome |-> "skipped", v |-> <<>>]
        det == DeterministicFallback(documents)
    IN IF llm.outcome = "returned"
       THEN [raised |-> FALSE, synthesis |-> llm.v[1].synthesis,
             attestations |-> llm.v[1].attestations, sidebar |-> "none"]
       ELSE [raised |-> FALSE, synthesis |-> det.synthesis,
             attestations |-> det.attestations,
             sidebar |-> SidebarMessage(llm.outcome, backend.response)]
(* ------------------- modules/guideline_retrieval.py ------------------- *)
\* the default threshold 0.15, in thousandths
DefaultThreshold == 150

\* Python's round(num/den, 2), in hundredths, for 0 <= num/den <= 1.  round
\* rounds the double nearest to the quotient, so a decimal tie (an odd
\* multiple of 1/200) goes the way that double lies: TiesRoundedUp holds the
\* hundredths q for which the double nearest to (2q+1)/200 is above it, or is
\* it exactly with q odd (0.375 and 0.875; 0.125 and 0.625 go down to even).
TiesRoundedUp ==
    {0, 2, 3, 5, 6, 8, 9, 11, 13, 16, 19, 22, 25, 26, 27, 31, 32, 33, 37, 38, 39,
     40, 44, 45, 46, 50, 51, 52, 53, 54, 55, 63, 64, 65, 66, 67, 68, 75, 76, 77,
     78, 79, 80, 87, 88, 89, 90, 91, 92, 93}
Round2(num, den) ==
    LET q == (100 * num) \div den
        r == (100 * num) % den
    IN IF 2 * r < den THEN q
       ELSE IF 2 * r > den THEN q + 1
       ELSE IF q \in TiesRoundedUp THEN q + 1 ELSE q

ALLOWED_GUIDELINE_DOMAINS ==
    {<<"w", "w", "w", ".", "n", "i", "c", "e", ".", "o", "r", "g", ".", "u", "k">>,
    <<"n", "i", "c", "e", ".", "o", "r", "g", ".", "u", "k">>,
    <<"w", "w", "w", ".", "w", "h", "o", ".", "i", "n", "t">>,
    <<"w", "h", "o", ".", "i", "n", "t">>,
    <<"w", "w", "w", ".", "g", "o", "v", ".", "u", "k">>,
    <<"g", "o", "v", ".", "u", "k">>,
    <<"w", "w", "w", ".", "n", "h", "s", ".", "u", "k">>,
    <<"n", "h", "s", ".", "u", "k">>,
    <<"e", "c", "d", "c", ".", "e", "u", "r", "o", "p", "a", ".", "e", "u">>,
    <<"w", "w", "w", ".", "e", "c", "d", "c", ".", "e", "u", "r", "o", "p", "a", ".", "e", "u">>}

\* the k-th smallest element of a set of numbers
Nth(S, k) == CHOOSE i \in S : Cardinality({j \in S : j < i}) = k - 1
\* t.split(sep) for a separator of one character
Split(t, sep) ==
    LET cuts == {i \in 1..Len(t) : t[i] = sep}
        Cut(k) == IF k = 0 THEN 0
                  ELSE IF k > Cardinality(cuts) THEN Len(t) + 1 ELSE Nth(cuts, k)
    IN [k \in 1..(Cardinality(cuts) + 1) |-> SubSeq(t, Cut(k - 1) + 1, Cut(k) - 1)]
UpTo(t, stops) ==
    IF \E i \in 1..Len(t) : t[i] \in stops
    THEN SubSeq(t, 1, (CHOOSE i \in 1..Len(t) :
                          t[i] \in stops /\ \A j \in 1..(i - 1) : t[j] \notin stops) - 1)
    ELSE t
After(t, stops) == SubSeq(t, Len(UpTo(t, stops)) + 2, Len(t))

\* urlsplit first drops the leading characters up to U+0020 and every tab,
\* carriage return and line feed of the link
C0ControlOrSpace == {Chr(n) : n \in 0..32}
UnsafeUrlChars == {"\t", "\r", "\n"}
UrlText(url) ==
    LET kept == {i \in 1..Len(url) : url[i] \notin C0ControlOrSpace}
    IN IF kept = {} THEN <<>>
       ELSE SelectSeq(SubSeq(url, Nth(kept, 1), Len(url)),
                      LAMBDA c : c \notin UnsafeUrlChars)
\* urlparse(url).netloc: with a scheme (a letter, then letters, digits, "+",
\* "-", ".") read up to the first ":", the text that follows "//" up to the
\* next "/", "?" or "#"; empty when no "//" follows
SchemeChars == Range(LowerAlpha) \cup Range(UpperAlpha) \cup Range(Digits) \cup {"+", "-", "."}
SchemeEnd(url) ==
    LET colons == {i \in 1..Len(url) : url[i] = ":"}
        i == IF colons = {} THEN 0
             ELSE CHOOSE c \in colons : \A d \in colons : c <= d
    IN IF /\ i > 1
          /\ url[1] \in Range(LowerAlpha) \cup Range(UpperAlpha)
          /\ \A k \in 1..(i - 1) : url[k] \in SchemeChars
       THEN i ELSE 0
NetLoc(url) ==
    LET rest == SubSeq(UrlText(url), SchemeEnd(UrlText(url)) + 1, Len(UrlText(url)))
    IN IF Len(rest) >= 2 /\ rest[1] = "/" /\ rest[2] = "/"
       THEN UpTo(SubSeq(rest, 3, Len(rest)), {"/", "?", "#"})
       ELSE <<>>

\* ipaddress.IPv4Address(s): four octets, each one to three ASCII digits
\* without a leading zero and at most 255
IsOctet(s) ==
    /\ s # <<>>
    /\ Range(s) \subseteq Range(Digits)
    /\ Len(s) <= 3
    /\ s = <<"0">> \/ s[1] # "0"
    /\ DigitsValue(s) <= 255
IsIPv4(s) ==
    /\ "/" \notin Range(s)
    /\ Len(Split(s, ".")) = 4
    /\ \A i \in 1..4 : IsOctet(Split(s, ".")[i])
\* ipaddress.IPv6Address(s): an optional scope after one "%"; three to nine
\* parts between colons, the last of which may be an IPv4 address that counts
\* for two; at most one "::", which stands for one part or more; a part is
\* one to four hexadecimal digits
HexDigits == Range(Digits) \cup {"a", "b", "c", "d", "e", "f", "A", "B", "C", "D", "E", "F"}
IsHextet(s) == s # <<>> /\ Range(s) \subseteq HexDigits /\ Len(s) <= 4
HextetsOk(parts) ==
    LET n == Len(parts)
        skips == {i \in 2..(n - 1) : parts[i] = <<>>}
        skip == Nth(skips, 1)
        parts_hi == IF parts[1] = <<>> THEN skip - 2 ELSE skip - 1
        parts_lo == IF parts[n] = <<>> THEN n - skip - 1 ELSE n - skip
    IN /\ n <= 9
       /\ Cardinality(skips) <= 1
       /\ IF skips = {}
          THEN n = 8 /\ \A i \in 1..n : IsHextet(parts[i])
          ELSE /\ parts[1] = <<>> => parts_hi = 0
               /\ parts[n] = <<>> => parts_lo = 0
               /\ parts_hi + parts_lo <= 7
               /\ \A i \in (1..parts_hi) \cup ((n - parts_lo + 1)..n) : IsHextet(parts[i])
IsIPv6(s) ==
    LET scoped == "%" \in Range(s)
        parts == Split(UpTo(s, {"%"}), ":")
        last == parts[Len(parts)]
    IN /\ "/" \notin Range(s)
       /\ scoped => After(s, {"%"}) # <<>> /\ "%" \notin Range(After(s, {"%"}))
       /\ Len(parts) >= 3
       /\ IF "." \in Range(last)
          THEN /\ IsIPv4(last)
               /\ HextetsOk(SubSeq(parts, 1, Len(parts) - 1) \o <<<<"0">>, <<"0">>>>)
          ELSE HextetsOk(parts)
\* _check_bracketed_host: "v", hexadecimal digits, ".", and more (IPvFuture),
\* or an IPv6 address
BracketedHostOk(host) ==
    IF host # <<>> /\ host[1] = "v"
    THEN /\ UpTo(Tail(host), {"."}) # <<>>
         /\ Range(UpTo(Tail(host), {"."})) \subseteq HexDigits
         /\ After(Tail(host), {"."}) # <<>>
    ELSE IsIPv6(host)
\* urlsplit raises ValueError for a netloc with one kind of bracket only, or
\* whose text between "[" and the next "]" is no such host.  (Its last check,
\* of a netloc that gains "/", "?", "#", "@" or ":" under NFKC, rejects no
\* character below U+0100 and no white space.)
InvalidNetLoc(netloc) ==
    \/ ("[" \in Range(netloc)) # ("]" \in Range(netloc))
    \/ /\ "[" \in Range(netloc)
       /\ ~BracketedHostOk(UpTo(After(netloc, {"["}), {"]"}))
\* lines 44-51: the host, lower case and without its port, is in the
\* allowlist; a ValueError of urlparse gives False
_domain_allowed(url) ==
    /\ ~InvalidNetLoc(NetLoc(url))
    /\ UpTo(lower(NetLoc(url)), {":"}) \in ALLOWED_GUIDELINE_DOMAINS

\* str(n) for n >= 0
RECURSIVE DecimalOf(_)
DecimalOf(n) ==
    IF n < 10 THEN <<Digits[n + 1]>>
    ELSE Append(DecimalOf(n \div 10), Digits[(n % 10) + 1])

\* the shortest paragraph text that is not kept is 60 characters long
MinSectionLen == 60

\* scrape_guideline_url(url), lines 54-82.  reply is what the request gives:
\* kind "ok" with the Last-Modified header (<<>> when absent) and the texts
\* p.get_text() of the p, li, h2 and h3 elements of the page's main content
\* in document order, or a kind that makes requests.get or raise_for_status
\* raise.  Every exception is caught and the chunks collected so far, none,
\* are returned.
scrape_guideline_url(url, reply) ==
    IF ~_domain_allowed(url) \/ reply.kind # "ok" THEN <<>>
    ELSE LET paragraphs == reply.paragraphs
             kept == {i \in 1..Len(paragraphs) : Len(strip(paragraphs[i])) > MinSectionLen}
         IN [k \in 1..Cardinality(kept) |->
                [source |-> url,
                 page |-> <<"S", "e", "c", "t", "i", "o", "n", " ">> \o DecimalOf(Nth(kept, k)),
                 text |-> strip(paragraphs[Nth(kept, k)]),
                 last_modified |-> reply.last_modified]]

\* process_uploaded_pdf(uploaded_file), lines 21-41.  The file is its name,
\* the first 12 hexadecimal digits of the SHA-256 of its bytes, and what
\* extract_text gives for each page, a text or nothing (<<>>); fails_at is the
\* page at which pdfplumber raises (0 for none), readable FALSE a file that
\* pdfplumber cannot open.  An exception ends the loop and the chunks of the
\* pages before it are returned.
process_uploaded_pdf(uploaded_file) ==
    LET pages == uploaded_file.pages
        last == IF ~uploaded_file.readable THEN 0
                ELSE IF uploaded_file.fails_at = 0 THEN Len(pages)
                ELSE uploaded_file.fails_at - 1
        kept == {i \in 1..last : pages[i] # <<>>}
    IN [k \in 1..Cardinality(kept) |->
           [source |-> uploaded_file.name,
            page |-> Nth(kept, k),
            text |-> pages[Nth(kept, k)],
            hash |-> uploaded_file.hash]]

(* ------- TfidfVectorizer(stop_words="english"), cosine_similarity ------ *)
\* The words of scikit-learn's ENGLISH_STOP_WORDS that occur in the texts of
\* the model.
ENGLISH_STOP_WORDS ==
    {<<"t", "h", "e">>,
    <<"i", "n">>,
    <<"a", "l", "l">>,
    <<"w", "e", "r", "e">>,
    <<"a", "t">>,
    <<"t", "h", "r", "e", "e">>,
    <<"w", "a", "s">>,
    <<"e", "v", "e", "r", "y">>,
    <<"f", "u", "r", "t", "h", "e", "r">>,
    <<"m", "u", "s", "t">>}

\* the token pattern (?u)\b\w\w+\b on the lower-cased text: the maximal runs
\* of word characters that are at least two characters long
TokenStarts(t) ==
    {i \in 1..Len(t) : t[i] \in WordChars /\ (i = 1 \/ t[i - 1] \notin WordChars)}
TokenAt(t, i) ==
    SubSeq(t, i, CHOOSE j \in i..Len(t) :
                    /\ \A k \in i..j : t[k] \in WordChars
                    /\ (j = Len(t) \/ t[j + 1] \notin WordChars))
\* build_analyzer(): the tokens of a text that are no stop words, each at
\* the position it starts at
analyze(text) ==
    LET t == lower(text)
        kept == {i \in TokenStarts(t) :
                    /\ Len(TokenAt(t, i)) >= 2
                    /\ TokenAt(t, i) \notin ENGLISH_STOP_WORDS}
    IN [i \in kept |-> TokenAt(t, i)]
\* the analysed texts of the chunks, evaluated once
Paragraph60 == S_30 \o S_30
Paragraph61 == <<" ">> \o S_30 \o S_31 \o <<"\n">>
AnalyzedTexts ==
    [t \in {S_SUP, S_RISK, S_NEU, S_30, S_31, S_REG, S_NOP, A1, A4, A8,
            strip(Paragraph61)} |-> analyze(t)]
Analyzed(text) ==
    IF text \in DOMAIN AnalyzedTexts THEN AnalyzedTexts[text] ELSE analyze(text)

TermsOf(tokens) == {tokens[i] : i \in DOMAIN tokens}
\* term frequency, document frequency
Tf(tokens, w) == Cardinality({i \in DOMAIN tokens : tokens[i] = w})
Df(docs, w) == Cardinality({j \in 1..Len(docs) : w \in TermsOf(docs[j])})

\* The weights are numbers beyond 32 bits: a sequence of limbs below Base,
\* the lowest first and the highest not 0; <<>> is 0.
Base == 10000
RECURSIVE BigOf(_)
BigOf(n) == IF n = 0 THEN <<>> ELSE <<n % Base>> \o BigOf(n \div Base)
Limb(a, i) == IF i <= Len(a) THEN a[i] ELSE 0
\* the limbs from i on of a + b + carry * Base^(i-1)
RECURSIVE AddFrom(_, _, _, _)
AddFrom(a, b, i, carry) ==
    IF i > Len(a) /\ i > Len(b) THEN BigOf(carry)
    ELSE <<(Limb(a, i) + Limb(b, i) + carry) % Base>>
         \o AddFrom(a, b, i + 1, (Limb(a, i) + Limb(b, i) + carry) \div Base)
BigAdd(a, b) == AddFrom(a, b, 1, 0)
\* the limbs from i on of a * d, for 0 < d < Base
RECURSIVE MulLimb(_, _, _, _)
MulLimb(a, d, i, carry) ==
    IF i > Len(a) THEN BigOf(carry)
    ELSE <<(a[i] * d + carry) % Base>>
         \o MulLimb(a, d, i + 1, (a[i] * d + carry) \div Base)
\* a * d * Base^k
Scaled(a, d, k) ==
    IF a = <<>> \/ d = 0 THEN <<>>
    ELSE [i \in 1..k |-> 0] \o MulLimb(a, d, 1, 0)
RECURSIVE MulFrom(_, _, _)
MulFrom(a, b, i) ==
    IF i > Len(b) THEN <<>>
    ELSE BigAdd(Scaled(a, b[i], i - 1), MulFrom(a, b, i + 1))
BigMul(a, b) == MulFrom(a, b, 1)
\* a < b
RECURSIVE LessFrom(_, _, _)
LessFrom(a, b, i) ==
    IF i = 0 THEN FALSE
    ELSE IF a[i] # b[i] THEN a[i] < b[i]
    ELSE LessFrom(a, b, i - 1)
BigLess(a, b) == Len(a) < Len(b) \/ (Len(a) = Len(b) /\ LessFrom(a, b, Len(a)))
RECURSIVE BigSum(_)
BigSum(f) ==
    IF DOMAIN f = {} THEN <<>>
    ELSE BigAdd(f[CHOOSE x \in DOMAIN f : TRUE],
                BigSum([y \in DOMAIN f \ {CHOOSE x \in DOMAIN f : TRUE} |-> f[y]]))

\* idf = ln((1 + n) / (1 + df)) + 1 (smooth_idf) in units of 1/IdfUnit, for n
\* documents of which df hold the term.  SmoothIdf[n][df] is that value to the
\* nearest unit, for up to 9 documents.
IdfUnit == 100000000
SmoothIdf ==
    <<<<100000000>>,
      <<140546511, 100000000>>,
      <<169314718, 128768207, 100000000>>,
      <<191629073, 151082562, 122314355, 100000000>>,
      <<209861229, 169314718, 140546511, 118232156, 100000000>>,
      <<225276297, 184729786, 155961579, 133647224, 115415068, 100000000>>,
      <<238629436, 198082925, 169314718, 147000363, 128768207, 113353139, 100000000>>,
      <<250407740, 209861229, 181093022, 158778666, 140546511, 125131443, 111778304, 100000000>>,
      <<260943791, 220397280, 191629073, 169314718, 151082562, 135667494, 122314355, 110536052, 100000000>>>>
Idf(n, df) == SmoothIdf[n][df]

Dot(u, v) == BigSum([w \in DOMAIN u \cap DOMAIN v |-> BigMul(u[w], v[w])])
\* the square of the length of a vector
Norm(vector) == Dot(vector, vector)

\* vectorizer.fit(texts): the vocabulary is the terms of the chunk texts (an
\* empty vocabulary raises ValueError) and idf the weight of each term
Vocabulary(docs) == UNION {TermsOf(docs[j]) : j \in DOMAIN docs}
fit(docs) ==
    [vocabulary |-> Vocabulary(docs),
     idf |-> [w \in Vocabulary(docs) |-> Idf(Len(docs), Df(docs, w))]]
\* vectorizer.transform: the weights tf * idf of the terms of a text that are
\* in the vocabulary
transform(vectorizer, tokens) ==
    [w \in TermsOf(tokens) \cap vectorizer.vocabulary |->
        Scaled(BigOf(vectorizer.idf[w]), Tf(tokens, w), 0)]
\* tfidf[j] is the vector of chunk j and norms[j] the square of its length
Vectors(vectorizer, tfidf) ==
    [vocabulary |-> vectorizer.vocabulary, idf |-> vectorizer.idf,
     tfidf |-> tfidf, norms |-> [j \in DOMAIN tfidf |-> Norm(tfidf[j])]]
Transformed(vectorizer, docs) ==
    Vectors(vectorizer, [j \in DOMAIN docs |-> transform(vectorizer, docs[j])])
FitDocs(docs) == Transformed(fit(docs), docs)
\* vectorizer.fit_transform(texts)
fit_transform(texts) == FitDocs([j \in 1..Len(texts) |-> Analyzed(texts[j])])
\* the fitted vectoriser for the chunk texts of the model, evaluated once
FittedTexts ==
    [texts \in {<<S_SUP, S_RISK>>, <<S_SUP, S_RISK, S_SUP>>, <<S_SUP>>,
                <<A1, A8, strip(Paragraph61), A4>>} |-> fit_transform(texts)]
Fitted(texts) ==
    IF texts \in DOMAIN FittedTexts THEN FittedTexts[texts] ELSE fit_transform(texts)

\* A similarity is the cosine of two vectors, kept as its square num / den:
\* the dot product squared over the product of the squared lengths, 0 / 1
\* when a vector has no term of the vocabulary (the normalisation leaves a
\* zero vector as it is).  The cosines are not negative.
Cosine(dot, norms) ==
    IF norms = <<>> THEN [num |-> <<>>, den |-> <<1>>]
    ELSE [num |-> BigMul(dot, dot), den |-> norms]
SimLess(a, b) == BigLess(BigMul(a.num, b.den), BigMul(b.num, a.den))
\* sim >= thousandths / 1000
AtLeast(sim, thousandths) ==
    ~BigLess(BigMul(BigOf(1000000), sim.num),
             BigMul(BigOf(thousandths * thousandths), sim.den))
\* round on 200^2 * num / den = half_up / den reaches the hundredths q when
\* half_up is above bound = (2q - 1)^2 * den; on a tie between q - 1 and q,
\* when round goes up from q - 1
Reaches(half_up, bound, q) ==
    BigLess(bound, half_up) \/ (bound = half_up /\ (q - 1) \in TiesRoundedUp)
\* the largest hundredths of lo..hi that round reaches, lo being reached: q
\* is the middle of lo..hi
RECURSIVE Bisect(_, _, _, _, _)
Bisect(half_up, den, lo, hi, q) ==
    IF lo = hi THEN lo
    ELSE IF Reaches(half_up, BigMul(BigOf((2 * q - 1) * (2 * q - 1)), den), q)
    THEN Bisect(half_up, den, q, hi, (q + hi + 1) \div 2)
    ELSE Bisect(half_up, den, lo, q - 1, (lo + q) \div 2)
Hundredths(half_up, den) == Bisect(half_up, den, 0, 100, 50)
\* round(sim, 2), in hundredths
SimRound(sim) == Hundredths(BigMul(BigOf(40000), sim.num), sim.den)

\* cosine_similarity(vectorizer.transform([claim]), tfidf).flatten(): the
\* cosine of the l2-normalised tf-idf vectors of the claim and of each chunk
Cosines(fitted, claim_vec) ==
    [j \in DOMAIN fitted.tfidf |->
        Cosine(Dot(claim_vec, fitted.tfidf[j]),
               BigMul(Norm(claim_vec), fitted.norms[j]))]
Similarities(fitted, tokens) == Cosines(fitted, transform(fitted, tokens))
\* the rows of the claims and chunk lists that recur
RowClaims ==
    {S_SUP, S_RISK, S_NEU, S_31, S_NOP,
     <<"B", "e", "n", "e", "f", "i", "t">>,
     <<"E", "v", "e", "n", "t", "s", "!">>,
     <<"F", "a", "k", "e", ".">>}
SimilarityRows ==
    [claim \in RowClaims |->
        [texts \in DOMAIN FittedTexts |->
            Similarities(FittedTexts[texts], Analyzed(claim))]]
cosine_similarity(claim, texts) ==
    IF claim \in RowClaims /\ texts \in DOMAIN FittedTexts
    THEN SimilarityRows[claim][texts]
    ELSE Similarities(Fitted(texts), Analyzed(claim))

\* sims.argmax(): the first index of the largest entry; best is that of the
\* entries before j
RECURSIVE ArgMaxFrom(_, _, _)
ArgMaxFrom(row, best, j) ==
    IF j > Len(row) THEN best
    ELSE ArgMaxFrom(row, IF SimLess(row[best], row[j]) THEN j ELSE best, j + 1)
ArgMax(row) == ArgMaxFrom(row, 1, 2)

\* An argument that may be None is <<>> for None and <<x>> for the value x.
\* claims is such an optional list of claim texts, guideline_chunks an
\* optional list of chunk records (source, page, text and the provenance
\* fields of the loader); threshold is in thousandths.  A result None is
\* <<>>, a match is <<record>>, its score in hundredths.
IsNone(opt) == opt = <<>>
\* `not x`: None or the empty list
Falsy(opt) == IsNone(opt) \/ opt[1] = <<>>

\* lines 100-115 for one claim: {"source", "page", "score", **meta}
Match(g, best_score, threshold) ==
    IF AtLeast(best_score, threshold)
    THEN <<[k \in {"source", "page", "score"} \cup (DOMAIN g \ {"text"}) |->
               IF k \in DOMAIN g \ {"text"} THEN g[k]
               ELSE IF k = "score" THEN SimRound(best_score)
               ELSE <<>>]>>
    ELSE <<>>
Best(guideline_chunks, sims, best_idx, threshold) ==
    Match(guideline_chunks[best_idx], sims[best_idx], threshold)
TextsOf(guideline_chunks) ==
    [j \in 1..Len(guideline_chunks) |-> guideline_chunks[j].text]
AlignSims(guideline_chunks, sims, threshold) ==
    Best(guideline_chunks, sims, ArgMax(sims), threshold)
AlignOne(claim, guideline_chunks, threshold) ==
    AlignSims(guideline_chunks,
              cosine_similarity(claim, TextsOf(guideline_chunks)), threshold)

RECURSIVE AlignLoop(_, _, _, _)
AlignLoop(claims, n, guideline_chunks, threshold) ==
    IF n = 0 THEN <<>>
    ELSE DictSet(AlignLoop(claims, n - 1, guideline_chunks, threshold),
                 claims[n], AlignOne(claims[n], guideline_chunks, threshold))

\* line 92: {claim: None for claim in claims}[1..n]
RECURSIVE NoneLoop(_, _)
NoneLoop(claims, n) ==
    IF n = 0 THEN <<>> ELSE DictSet(NoneLoop(claims, n - 1), claims[n], <<>>)

\* The result is [raised, value]: iterating over claims = None raises
\* TypeError, fitting the vectoriser to texts without a term ValueError.
align_claims_to_guidelines(claims, guideline_chunks, threshold) ==
    IF Falsy(guideline_chunks) \/ Falsy(claims)
    THEN IF IsNone(claims) THEN [raised |-> "TypeError", value |-> <<>>]
         ELSE [raised |-> "none", value |-> NoneLoop(claims[1], Len(claims[1]))]
    ELSE IF Fitted(TextsOf(guideline_chunks[1])).vocabulary = {}
    THEN [raised |-> "ValueError", value |-> <<>>]
    ELSE [raised |-> "none",
          value |-> AlignLoop(claims[1], Len(claims[1]), guideline_chunks[1],
                              threshold)]


(* -------------------- modules/guideline_checker.py -------------------- *)
\* (GA, matched, total); GA is the quotient matched/total, kept as the pair
compute_ga_metrics(alignment) ==
    LET total == Len(alignment)
        matched == Cardinality({i \in 1..Len(alignment) : alignment[i].v # <<>>})
    IN [ga |-> IF total # 0 THEN [num |-> matched, den |-> total]
               ELSE [num |-> 0, den |-> 1],
        matched |-> matched,
        total |-> total]

(* -------------------------- modules/crts.py --------------------------- *)
\* The values of an attestation map are records; a value is truthy when it
\* has a field, granular when it has a source_text.  sf, crr, ar and ga are
\* in hundredths (round(x, 2)), L in seconds.
GranularL == 2
CoarseL == 5
\* a test that takes only the granular records for grounded
Truthy_Granular(v) == "source_text" \in DOMAIN v
Truthy(v) == DOMAIN v # {}
\* a minimum that does not cap
Min_Uncapped(a, b) == a
Min(a, b) == IF a <= b THEN a ELSE b

compute_crts(attestations, conflict_summary, surfaced_risks_count, nice_matches) ==
    LET n_claims == Len(attestations)
        grounded == Cardinality({i \in 1..n_claims : Truthy(attestations[i].v)})
        sf == IF n_claims > 0 THEN Round2(grounded, n_claims) ELSE 0
        detected_conflicts == conflict_summary.risk
        crr == IF detected_conflicts > 0
               THEN Round2(Min(surfaced_risks_count, detected_conflicts),
                           detected_conflicts)
               ELSE 100
        has_granular_attestation ==
            \E i \in 1..n_claims : "source_text" \in DOMAIN attestations[i].v
        L == IF has_granular_attestation THEN GranularL ELSE CoarseL
        ar == Round2(1, L)
        ga == IF nice_matches # <<>> THEN 100 ELSE 0
    IN [sf |-> sf, crr |-> crr, ar |-> ar, ga |-> ga, L |-> L]

\* A call with keyword arguments: Python raises TypeError for a keyword the
\* signature does not have, or a missing parameter without a default.
CrtsParams == {"attestations", "conflict_summary", "surfaced_risks_count", "nice_matches"}
CrtsRequired == {"attestations", "conflict_summary"}
CallComputeCrts(kwargs) ==
    IF ~(DOMAIN kwargs \subseteq CrtsParams /\ CrtsRequired \subseteq DOMAIN kwargs)
    THEN [raised |-> "TypeError", value |-> <<>>]
    ELSE [raised |-> "none",
          value |-> compute_crts(
              kwargs.attestations, kwargs.conflict_summary,
              IF "surfaced_risks_count" \in DOMAIN kwargs
                  THEN kwargs.surfaced_risks_count ELSE 0,
              IF "nice_matches" \in DOMAIN kwargs THEN kwargs.nice_matches ELSE <<>>)]

(* ------------------------------- app.py -------------------------------- *)
\* The sliders give each weight in steps of 0.05 (SliderSteps steps for 1.0).
\* Weights are [alpha, beta, gamma, delta, den]: the weight alpha is alpha/den.
SliderSteps == 20
NormaliseWeights(alpha, beta, gamma, delta) ==
    LET w_sum == alpha + beta + gamma + delta
    IN IF w_sum = 0
       THEN [alpha |-> 30, beta |-> 30, gamma |-> 20, delta |-> 20, den |-> 100]
       ELSE [alpha |-> alpha, beta |-> beta, gamma |-> gamma, delta |-> delta,
             den |-> w_sum]

\* k_seconds=5.0 of the call of compute_crts
KSeconds == 5

\* re.compile(r"<BS>(risk|toxicit|contraindicat|adverse|harm|warning|black box)<BS>",
\* re.I): the pattern in the source has a literal backspace on either side.
APP_RISK_TERMS ==
    <<<<"r", "i", "s", "k">>,
      <<"t", "o", "x", "i", "c", "i", "t">>,
      <<"c", "o", "n", "t", "r", "a", "i", "n", "d", "i", "c", "a", "t">>,
      <<"a", "d", "v", "e", "r", "s", "e">>,
      <<"h", "a", "r", "m">>,
      <<"w", "a", "r", "n", "i", "n", "g">>,
      <<"b", "l", "a", "c", "k", " ", "b", "o", "x">>>>
AppRiskSearch(s) ==
    \E i \in 1..Len(APP_RISK_TERMS) :
        Contains(lower(s), <<"<BS>">> \o APP_RISK_TERMS[i] \o <<"<BS>">>)

estimate_surfaced_risks(synthesis, detected_conflicts) ==
    IF synthesis = <<>> \/ detected_conflicts <= 0 THEN 0
    ELSE LET sents == SplitAt(synthesis, 1)
         IN Min(Cardinality({i \in 1..Len(sents) : AppRiskSearch(sents[i])}),
                detected_conflicts)

(* ---------------------- utils/logging.py (logging) --------------------- *)
\* _row_from_crts: crts.get(name) is None (<<>>) for an absent key.  The
\* weights are read from (crts.get("weights", {}) or {}): an absent or empty
\* record gives None for each of them.
FieldOrNone(rec, name) == IF name \in DOMAIN rec THEN <<rec[name]>> ELSE <<>>
WeightOrNone(crts, name) ==
    IF "weights" \in DOMAIN crts THEN FieldOrNone(crts.weights, name) ELSE <<>>
\* utcnow is the clock's datetime.utcnow().isoformat() at the call
_row_from_crts(query, crts, utcnow) ==
    [timestamp |-> utcnow, query |-> query,
     sf |-> FieldOrNone(crts, "sf"), crr |-> FieldOrNone(crts, "crr"),
     ar |-> FieldOrNone(crts, "ar"), ga |-> FieldOrNone(crts, "ga"),
     crts |-> FieldOrNone(crts, "crts"), L |-> FieldOrNone(crts, "L"),
     alpha |-> WeightOrNone(crts, "alpha"), beta |-> WeightOrNone(crts, "beta"),
     gamma |-> WeightOrNone(crts, "gamma"), delta |-> WeightOrNone(crts, "delta")]

\* What a call appends: csv holds the row written to crts_log.csv, jsonl the
\* row written to crts_log.jsonl and perf the row written to
\* logs/crts_performance.csv, <<>> where the call leaves the file alone.  The
\* files are opened to append (mode "a").
\* log_crts(query, crts, logfile), lines 39-47
log_crts(query, crts, utcnow) ==
    [csv |-> <<_row_from_crts(query, crts, utcnow)>>, jsonl |-> <<>>, perf |-> <<>>]
\* data.update(extra): the fields of extra are added to the row, or replace
\* the row's; extra is <<>> for None
Updated(data, extra) ==
    IF extra = <<>> THEN data
    ELSE [name \in DOMAIN data \cup DOMAIN extra[1] |->
             IF name \in DOMAIN extra[1] THEN extra[1][name] ELSE data[name]]
\* log_crts_jsonl(query, crts, jsonl_path, extra), lines 50-63
log_crts_jsonl(query, crts, extra, utcnow) ==
    [csv |-> <<>>, jsonl |-> <<Updated(_row_from_crts(query, crts, utcnow), extra)>>,
     perf |-> <<>>]
\* log_crts_both(query, crts, csv_path, jsonl_path, extra), lines 66-75:
\* log_crts, then log_crts_jsonl, each with a clock read of its own
log_crts_both(query, crts, extra, csv_now, jsonl_now) ==
    [csv |-> log_crts(query, crts, csv_now).csv,
     jsonl |-> log_crts_jsonl(query, crts, extra, jsonl_now).jsonl,
     perf |-> <<>>]
\* modules/logging.py, log_crts(query, crts), lines 5-29: one row of seven
\* fields; crts.get(name, 0) is the field's value, or the integer 0 where the
\* record has no such field.  now is the clock's
\* datetime.now().strftime("%Y-%m-%d %H:%M:%S") at the call.
FieldOrZero(rec, name) ==
    IF name \in DOMAIN rec THEN [given |-> TRUE, value |-> rec[name]]
    ELSE [given |-> FALSE, value |-> 0]
modules_log_crts(query, crts, now) ==
    [csv |-> <<>>, jsonl |-> <<>>,
     perf |-> <<[timestamp |-> now, query |-> query,
                 sf |-> FieldOrZero(crts, "sf"), crr |-> FieldOrZero(crts, "crr"),
                 ar |-> FieldOrZero(crts, "ar"), ga |-> FieldOrZero(crts, "ga"),
                 L |-> FieldOrZero(crts, "L")]>>]
\* The CSV file after the calls of a log: the header is written by the first
\* call that finds no file (the files do not exist before the first call).
FIELDS ==
    <<"timestamp", "query", "sf", "crr", "ar", "ga", "crts", "L", "alpha", "beta",
      "gamma", "delta">>
RECURSIVE Rows(_, _)
Rows(calls, file) ==
    IF calls = <<>> THEN <<>> ELSE Head(calls)[file] \o Rows(Tail(calls), file)
CsvFile(calls) ==
    IF Rows(calls, "csv") = <<>> THEN <<>> ELSE <<FIELDS>> \o Rows(calls, "csv")
JsonlFile(calls) == Rows(calls, "jsonl")
\* logs/crts_performance.csv: the directory logs is made by the first call,
\* the header is written by the call that finds no file
PERF_FIELDS == <<"timestamp", "query", "sf", "crr", "ar", "ga", "L">>
PerfFile(calls) ==
    IF Rows(calls, "perf") = <<>> THEN <<>> ELSE <<PERF_FIELDS>> \o Rows(calls, "perf")
\* the number of times the clock was read by the calls of a log
ClockReads(calls) ==
    Len(Rows(calls, "csv")) + Len(Rows(calls, "jsonl")) + Len(Rows(calls, "perf"))

(* ------------------------- inputs of the calls ------------------------ *)
\* the lists of up to n distinct indices of 1..m in ascending order, and the
\* same lists reversed: the orders in which documents are supplied
IndexLists(n, m) ==
    UNION {{s \in [1..k -> 1..m] :
               \/ \A i \in 1..(k - 1) : s[i] < s[i + 1]
               \/ \A i \in 1..(k - 1) : s[i] > s[i + 1]} : k \in 0..n}
DocListsOf(pool, n) ==
    {[i \in 1..Len(s) |-> pool[s[i]]] : s \in IndexLists(n, Len(pool))}
DocLists(n) == DocListsOf(DocPool, n)
\* the documents the candidate claims cite, and one they do not
CitedPool == <<Doc1, Doc2, Doc5, Doc6>>

\* candidate claims of a backend response
\* an exact sentence of document 9; the claim text lacks its full stop
K1 ==
    [k |-> <<"B", "e", "n", "e", "f", "i", "t">>,
     v |-> [is_dict |-> TRUE, pmid |-> <<"9">>,
            source_text |-> S_SUP]]
\* the same claim text as K1 once K1 is completed
K2 ==
    [k |-> <<"B", "e", "n", "e", "f", "i", "t", ".">>,
     v |-> [is_dict |-> TRUE, pmid |-> <<"1", "0">>,
            source_text |-> S_NEU]]
\* pmid and source_text padded with white space
K3 ==
    [k |-> <<"E", "v", "e", "n", "t", "s", "!">>,
     v |-> [is_dict |-> TRUE, pmid |-> <<" ", "9", " ">>,
            source_text |-> S_RISK \o <<"\n">>]]
\* a fabricated sentence
K4 ==
    [k |-> <<"F", "a", "k", "e", ".">>,
     v |-> [is_dict |-> TRUE, pmid |-> <<"9">>,
            source_text |-> <<"T", "h", "e", " ", "d", "r", "u", "g", " ", "c", "u", "r", "e", "d", " ", "a", "l", "l", " ", "p", "a", "t", "i", "e", "n", "t", "s", ".">>]]
\* a pmid that was not retrieved
K5 ==
    [k |-> <<"U", "n", "k", "n", "o", "w", "n", ".">>,
     v |-> [is_dict |-> TRUE, pmid |-> <<"7", "7", "7">>,
            source_text |-> S_SUP]]
\* no source_text
K6 ==
    [k |-> <<"E", "m", "p", "t", "y", ".">>,
     v |-> [is_dict |-> TRUE, pmid |-> <<"1", "0">>,
            source_text |-> <<>>]]
\* a source_text of white space
K7 ==
    [k |-> <<"B", "l", "a", "n", "k", ".">>,
     v |-> [is_dict |-> TRUE, pmid |-> <<"1", "0">>,
            source_text |-> <<" ", " ">>]]
\* part of a sentence
K8 ==
    [k |-> <<"P", "a", "r", "t", "i", "a", "l", "?">>,
     v |-> [is_dict |-> TRUE, pmid |-> <<"1", "0">>,
            source_text |-> <<"a", "d", "v", "e", "r", "s", "e", " ", "e", "v", "e", "n", "t", "s">>]]
\* a sentence of another document
K9 ==
    [k |-> <<"W", "r", "o", "n", "g", "d", "o", "c", ".">>,
     v |-> [is_dict |-> TRUE, pmid |-> <<"3", "0">>,
            source_text |-> S_RISK]]
\* a sentence in another letter case
K10 ==
    [k |-> <<"C", "a", "s", "e", ".">>,
     v |-> [is_dict |-> TRUE, pmid |-> <<"9">>,
            source_text |-> lower(S_SUP)]]
\* a meta that is no JSON object
K11 ==
    [k |-> <<"N", "o", "t", "O", "b", "j", "e", "c", "t", ".">>,
     v |-> [is_dict |-> FALSE, pmid |-> <<"9">>,
            source_text |-> S_SUP]]
\* further exact quotations
K12 ==
    [k |-> <<"S", "h", "o", "r", "t", ".">>,
     v |-> [is_dict |-> TRUE, pmid |-> <<"1", "0">>,
            source_text |-> S_SHORT]]
K13 ==
    [k |-> <<"S", "u", "p", "2", ".">>,
     v |-> [is_dict |-> TRUE, pmid |-> <<"1", "0">>,
            source_text |-> S_SUP]]
K14 ==
    [k |-> <<"W", "o", "r", "d", ".">>,
     v |-> [is_dict |-> TRUE, pmid |-> <<"9">>,
            source_text |-> <<"s", "u", "r", "v", "i", "v", "a", "l">>]]
K15 ==
    [k |-> <<"S", "i", "t", "e", "s", ".">>,
     v |-> [is_dict |-> TRUE, pmid |-> <<"1", "0">>,
            source_text |-> <<"t", "h", "r", "e", "e", " ", "s", "i", "t", "e", "s", "!">>]]
CandPool == <<K1, K2, K3, K4, K5, K6, K7, K8, K9, K10, K11>>
LongList == <<K3, K8, K12, K1, K4, K13, K14, K15, K2, K5, K9>>
Reverse(s) == [i \in 1..Len(s) |-> s[Len(s) + 1 - i]]
\* the "attestations" objects: the candidates of the pool alone and in pairs,
\* in either order, and two long objects
CandLists ==
    {<<>>}
    \cup {<<CandPool[i]>> : i \in 1..Len(CandPool)}
    \cup UNION {{<<CandPool[i], CandPool[j]>> : i \in (1..Len(CandPool)) \ {j}} : j \in 1..2}
    \cup {<<CandPool[j], CandPool[i]>> : i \in 3..Len(CandPool), j \in 1..2}
    \cup {Take(LongList, MaxCand), Reverse(Take(LongList, MaxCand))}
SynthesisText ==
    <<" ", "B", "e", "n", "e", "f", "i", "t", " ", "a", "n", "d", " ", "h", "a", "r", "m", " ", "w", "e", "r", "e", " ", "b", "o", "t", "h", " ", "r", "e", "p", "o", "r", "t", "e", "d", ".", " ">>
NoData == [synthesis |-> <<>>, attestations |-> <<>>]
Responses ==
    {[kind |-> k, has429 |-> b, data |-> NoData] :
        k \in {"raise", "not_json"}, b \in BOOLEAN}
    \cup {[kind |-> k, has429 |-> FALSE, data |-> NoData] :
             k \in {"not_object", "att_not_object"}}
    \cup {[kind |-> "ok", has429 |-> FALSE,
           data |-> [synthesis |-> SynthesisText, attestations |-> a]] : a \in CandLists}
    \cup {[kind |-> "ok", has429 |-> FALSE,
           data |-> [synthesis |-> <<>>, attestations |-> a]] : a \in {<<K1>>, <<K4>>}}
NoResponse == [kind |-> "none", has429 |-> FALSE, data |-> NoData]
\* a backend that never answers: generate_content is called without a
\* timeout and without request options
Hang == [kind |-> "hang", has429 |-> FALSE, data |-> NoData]
Backends ==
    {[api_key |-> FALSE, sdk |-> TRUE, response |-> NoResponse],
     [api_key |-> TRUE, sdk |-> FALSE, response |-> NoResponse]}
    \cup {[api_key |-> TRUE, sdk |-> TRUE, response |-> r] : r \in Responses \cup {Hang}}

\* attestation maps handed to compute_crts: g granular records, c truthy
\* values without a source_text, e empty values
ClaimKey(i) == <<"c", Digits[i + 1]>>
GranularValue == [pmid |-> <<"9">>, source_text |-> S_SUP, document_title |-> <<>>]
CoarseValue == [pmid |-> <<"9">>]
EmptyValue == <<>>
AttMap(g, c, e) ==
    [i \in 1..(g + c + e) |->
        [k |-> ClaimKey(i),
         v |-> IF i <= g THEN GranularValue
               ELSE IF i <= g + c THEN CoarseValue ELSE EmptyValue]]
\* alignment maps of n claims with the first m aligned
MatchValue == <<[source |-> "guideline.pdf", page |-> 1, score |-> 50,
                 hash |-> "9f86d081884c"]>>
AlignMap(n, m) ==
    [i \in 1..n |-> [k |-> ClaimKey(i), v |-> IF i <= m THEN MatchValue ELSE <<>>]]

\* guideline files uploaded in the sidebar: two pages; a page without text
\* and the text of page 1 again on page 4; a page that holds its number
\* alone; a file pdfplumber fails on at page 2; a file it cannot open
File1 == [name |-> "guideline.pdf", hash |-> "9f86d081884c", readable |-> TRUE,
          pages |-> <<S_SUP, S_RISK>>, fails_at |-> 0]
File2 == [name |-> "guideline.pdf", hash |-> "9f86d081884c", readable |-> TRUE,
          pages |-> <<S_SUP, <<>>, S_RISK, S_SUP>>, fails_at |-> 0]
File3 == [name |-> "cover.pdf", hash |-> "2c26b46b68ff", readable |-> TRUE,
          pages |-> <<<<"3">>>>, fails_at |-> 0]
File4 == [name |-> "guideline.pdf", hash |-> "9f86d081884c", readable |-> TRUE,
          pages |-> <<S_SUP, S_RISK>>, fails_at |-> 2]
File5 == [name |-> "notes.txt", hash |-> "fcde2b2edba5", readable |-> FALSE,
          pages |-> <<>>, fails_at |-> 0]
Files == <<File1, File2, File3, File4, File5>>
\* guideline links entered in the sidebar: the default link, the same host in
\* capitals with its port, a host that only begins like an allowed one, a
\* link without a scheme, the default link behind a blank and with a tab in
\* its host
DEFAULT_NICE_URL ==
    <<"h", "t", "t", "p", "s", ":", "/", "/", "w", "w", "w", ".", "n", "i", "c", "e", ".", "o", "r", "g", ".", "u", "k", "/", "g", "u", "i", "d", "a", "n", "c", "e", "/", "n", "g", "1", "4">>
UrlWithPort ==
    <<"H", "T", "T", "P", "S", ":", "/", "/", "W", "W", "W", ".", "N", "I", "C", "E", ".", "O", "R", "G", ".", "U", "K", ":", "4", "4", "3", "/", "g", "u", "i", "d", "a", "n", "c", "e", "/", "n", "g", "1", "4">>
UrlOtherHost ==
    <<"h", "t", "t", "p", "s", ":", "/", "/", "w", "w", "w", ".", "n", "i", "c", "e", ".", "o", "r", "g", ".", "u", "k", ".", "e", "x", "a", "m", "p", "l", "e", ".", "c", "o", "m", "/", "n", "g", "1", "4">>
UrlNoScheme ==
    <<"w", "w", "w", ".", "n", "i", "c", "e", ".", "o", "r", "g", ".", "u", "k", "/", "g", "u", "i", "d", "a", "n", "c", "e", "/", "n", "g", "1", "4">>
UrlWithBlanks ==
    <<" ">> \o SubSeq(DEFAULT_NICE_URL, 1, 12) \o <<"\t">>
        \o SubSeq(DEFAULT_NICE_URL, 13, Len(DEFAULT_NICE_URL))
Urls == <<DEFAULT_NICE_URL, UrlWithPort, UrlOtherHost, UrlNoScheme, UrlWithBlanks, <<>>>>
\* what the request for a link gives: a page of six elements of which four
\* hold more than 60 characters, with and without a Last-Modified header; a
\* page without such an element; a timeout; an HTTP error status
PageTexts == <<A1, S_SUP, Paragraph60, A8, Paragraph61, A4>>
Replies ==
    <<[kind |-> "ok", last_modified |-> <<"Tue, 01 Oct 2024 09:00:00 GMT">>,
       paragraphs |-> PageTexts],
      [kind |-> "ok", last_modified |-> <<>>, paragraphs |-> PageTexts],
      [kind |-> "ok", last_modified |-> <<>>, paragraphs |-> <<S_SUP, Paragraph60>>],
      [kind |-> "timeout", last_modified |-> <<>>, paragraphs |-> <<>>],
      [kind |-> "http_error", last_modified |-> <<>>, paragraphs |-> <<>>]>>
\* the chunk lists the two loaders return for these inputs
PdfChunks == {process_uploaded_pdf(Files[i]) : i \in 1..Len(Files)}
WebChunks == {scrape_guideline_url(Urls[u], Replies[r]) :
                 u \in 1..Len(Urls), r \in 1..Len(Replies)}
\* the arguments of a call of align_claims_to_guidelines on its own: the
\* chunks are None or a list a loader returns; the claims are None or a list
\* of claim texts, in which a claim may occur twice; the threshold is the
\* default or 0.6
ChunkArgs == {<<>>} \cup {<<c>> : c \in PdfChunks \cup WebChunks}
ClaimArgs ==
    {<<>>, <<<<>>>>, <<<<S_SUP>>>>, <<<<S_RISK, S_NEU>>>>,
     <<<<S_NEU, S_SUP, S_NEU>>>>,
     <<<<K4.k, S_31, K3.k>>>>,
     <<<<K1.k, S_NOP>>>>}
Thresholds == {DefaultThreshold, 600}
\* datetime.utcnow().isoformat() at the successive reads of the clock, one
\* to a row: a read may return what the one before returned, and the
\* microseconds are left out when 0
Timestamps ==
    <<"2026-10-30T09:00:00", "2026-10-30T09:00:00",
      "2026-10-30T09:00:01.250000", "2026-10-30T09:00:01.250017",
      "2026-10-30T09:00:02.000001", "2026-10-30T09:00:02.000001",
      "2026-10-30T09:14:59.999999", "2026-10-30T09:15:00",
      "2026-10-30T23:59:59.999999", "2026-10-31T00:00:00">>
\* datetime.now().strftime("%Y-%m-%d %H:%M:%S") at the same reads: the local
\* time, here an hour ahead of UTC, to the second
LocalTimestamps ==
    <<"2026-10-30 10:00:00", "2026-10-30 10:00:00",
      "2026-10-30 10:00:01", "2026-10-30 10:00:01",
      "2026-10-30 10:00:02", "2026-10-30 10:00:02",
      "2026-10-30 10:14:59", "2026-10-30 10:15:00",
      "2026-10-31 00:59:59", "2026-10-31 01:00:00">>
\* the arguments of the calls of the logging functions: log_crts_both with a
\* record that compute_crts returns, log_crts with a record that lacks
\* fields and whose weights lack three, log_crts_jsonl with extra fields of
\* which one is a field of the row
LogCalls ==
    [log_crts_both |->
        [query |-> Query2,
         crts |-> compute_crts(AttMap(1, 0, 0),
                               [detected |-> TRUE, supportive |-> 1, risk |-> 2,
                                doc_tags |-> <<>>], 1, <<>>),
         extra |-> <<>>],
     log_crts |->
        [query |-> Query3,
         crts |-> [sf |-> 100, crts |-> 100, weights |-> [alpha |-> 100]],
         extra |-> <<>>],
     log_crts_jsonl |->
        [query |-> Query2,
         crts |-> [sf |-> 100, L |-> 2],
         extra |-> <<[run |-> "r1", query |-> <<>>]>>],
     modules_log_crts |->
        [query |-> Query3,
         crts |-> [sf |-> 100, crts |-> 100, weights |-> [alpha |-> 100]]]]

(* ------------------------------- state -------------------------------- *)
VARIABLES
    pc,                  \* the operation that ran last, or the line app.py is at
    query,               \* the query text
    raw_docs,            \* the document list as it was supplied
    documents,           \* the document list the operation works on
    backend,             \* the generative backend of the call
    conflict_summary,    \* the result of detect_conflicts
    synthesis,           \* generate_with_attestation: the synthesis
    attestations,        \*   and the attestation map
    sidebar,             \*   and its st.sidebar message
    guideline_source,    \* the guideline link or file chosen in the sidebar
    guideline_chunks,    \* the guideline chunks loaded in the sidebar
    guideline_alignment, \* the alignment map (nice_matches of compute_crts)
    surfaced_S,          \* the surfaced risk count
    weights,             \* the normalised weights of the sidebar
    kwargs,              \* the keywords compute_crts was called with
    crts,                \* the record compute_crts returned
    raised,              \* the exception the operation raised, or "none"
    log,                 \* what each call of a logging function appended to the log files
    align_args,          \* the arguments align_claims_to_guidelines was called with
    llm_calls            \* how often generate_content was invoked in the call

vars == <<pc, query, raw_docs, documents, backend, conflict_summary, synthesis,
          attestations, sidebar, guideline_source, guideline_chunks,
          guideline_alignment, surfaced_S, weights, kwargs, crts, raised, log,
          align_args, llm_calls>>

NoBackend == [api_key |-> FALSE, sdk |-> TRUE, response |-> NoResponse]
NoSummary == [detected |-> FALSE, supportive |-> 0, risk |-> 0, doc_tags |-> <<>>]
NoWeights == [alpha |-> 0, beta |-> 0, gamma |-> 0, delta |-> 0, den |-> 1]
NoSource == [type |-> "none"]
NoAlignArgs == [claims |-> <<>>, guideline_chunks |-> <<>>, threshold |-> 0]

\* nothing has been called: every value is fresh
Fresh ==
    /\ query = <<>> /\ raw_docs = <<>> /\ documents = <<>>
    /\ backend = NoBackend /\ conflict_summary = NoSummary
    /\ synthesis = <<>> /\ attestations = <<>> /\ sidebar = "none"
    /\ guideline_source = NoSource
    /\ guideline_chunks = <<>> /\ guideline_alignment = <<>>
    /\ surfaced_S = 0 /\ weights = NoWeights /\ kwargs = {}
    /\ crts = <<>> /\ raised = "none" /\ log = <<>>
    /\ align_args = NoAlignArgs /\ llm_calls = 0

Init == pc = "idle" /\ Fresh

(* ------------------ the components, called on their own ---------------- *)
\* detect_conflicts(documents)
DetectConflicts ==
    /\ pc = "idle"
    /\ \E docs \in DocLists(MaxDocs) :
          /\ documents' = docs
          /\ conflict_summary' = detect_conflicts(docs)
    /\ pc' = "detect_conflicts"
    /\ UNCHANGED <<query, raw_docs, backend, synthesis, attestations, sidebar,
                   guideline_source, guideline_chunks, guideline_alignment,
                   surfaced_S, weights, kwargs, crts, raised, log, align_args,
                   llm_calls>>

\* prioritise_documents(documents, query): sorts the list it is given in place
PrioritiseDocuments ==
    /\ pc = "idle"
    /\ \E docs \in DocLists(MaxSortDocs), q \in QueryPool :
          /\ raw_docs' = docs
          /\ query' = q
          /\ documents' = prioritise_documents(docs, q)
    /\ pc' = "prioritise_documents"
    /\ UNCHANGED <<backend, conflict_summary, synthesis, attestations, sidebar,
                   guideline_source, guideline_chunks, guideline_alignment,
                   surfaced_S, weights, kwargs, crts, raised, log, align_args,
                   llm_calls>>

(***************************************************************************)
(* generate_with_attestation(query, documents, api_key), statement by      *)
(* statement.  The call of the generative backend (attestation.py line 98) *)
(* is a step of its own: the function waits at it until generate_content   *)
(* returns or raises.  The code passes no timeout and no request options   *)
(* to generate_content, so a backend that never answers leaves the wait    *)
(* without a step.  `at`, `wait`, `fallback` and `done` are the positions  *)
(* of the caller: the call on its own, or line 87 of app.py.               *)
(***************************************************************************)
\* line 64: if api_key and genai is not None
Enter(api_key, at, fallback) ==
    /\ pc' = IF LlmAvailable(api_key) THEN at ELSE fallback
    /\ llm_calls' = 0

\* line 98: model.generate_content(prompt) is sent
Invoke(at, wait) ==
    /\ pc = at
    /\ llm_calls' = llm_calls + 1
    /\ pc' = wait
    /\ UNCHANGED <<query, raw_docs, documents, backend, conflict_summary,
                   synthesis, attestations, sidebar, guideline_source,
                   guideline_chunks, guideline_alignment, surfaced_S, weights,
                   kwargs, crts, raised, log, align_args>>

\* lines 98-113: generate_content returns or raises; the response is
\* validated and returned, or the warning or the except branch writes the
\* sidebar message
Respond(wait, fallback, done) ==
    /\ pc = wait
    /\ backend.response.kind # "hang"
    /\ LET llm == LlmPath(documents, backend.response)
       IN IF llm.outcome = "returned"
          THEN /\ synthesis' = llm.v[1].synthesis
               /\ attestations' = llm.v[1].attestations
               /\ sidebar' = "none"
               /\ pc' = done
          ELSE /\ sidebar' = SidebarMessage(llm.outcome, backend.response)
               /\ pc' = fallback
               /\ UNCHANGED <<synthesis, attestations>>
    /\ UNCHANGED <<query, raw_docs, documents, backend, conflict_summary,
                   guideline_source, guideline_chunks, guideline_alignment,
                   surfaced_S, weights, kwargs, crts, raised, log, align_args,
                   llm_calls>>

\* lines 115-132: the deterministic fallback
Fallback(fallback, done) ==
    /\ pc = fallback
    /\ LET det == DeterministicFallback(documents)
       IN /\ synthesis' = det.synthesis
          /\ attestations' = det.attestations
    /\ pc' = done
    /\ UNCHANGED <<query, raw_docs, documents, backend, conflict_summary,
                   sidebar, guideline_source, guideline_chunks,
                   guideline_alignment, surfaced_S, weights, kwargs, crts,
                   raised, log, align_args, llm_calls>>

GenerateWithAttestation ==
    /\ pc = "idle"
    /\ \E b \in Backends :
       \E docs \in IF LlmAvailable(b) THEN DocListsOf(CitedPool, MaxDocs)
                   ELSE DocLists(MaxDocs) :
          /\ documents' = docs
          /\ backend' = b
          /\ Enter(b, "att_98", "att_116")
    /\ UNCHANGED <<query, raw_docs, conflict_summary, synthesis, attestations,
                   sidebar, guideline_source, guideline_chunks,
                   guideline_alignment, surfaced_S, weights, kwargs, crts,
                   raised, log, align_args>>
GenerateInvoke == Invoke("att_98", "att_98_wait")
GenerateRespond == Respond("att_98_wait", "att_116", "generate_with_attestation")
GenerateFallback == Fallback("att_116", "generate_with_attestation")

\* the keywords of the call of app.py, lines 147-154
PipelineKeywords ==
    {"attestations", "conflict_summary", "guideline_alignment",
     "surfaced_risks_count", "k_seconds", "weights"}
\* compute_crts(attestations, conflict_summary, surfaced_risks_count,
\* nice_matches), and the call with the keywords of app.py
ComputeCrts ==
    /\ pc = "idle"
    /\ \E g, c, e, risk, surfaced \in 0..MaxCount :
          /\ g + c + e <= MaxCount
          /\ \E nm \in {<<>>} \cup {AlignMap(g + c + e, m) : m \in 0..(g + c + e)} :
             \E as_app \in BOOLEAN :
                LET summary == [detected |-> risk > 0, supportive |-> 1,
                                risk |-> risk, doc_tags |-> <<>>]
                    args == IF as_app
                            THEN [attestations |-> AttMap(g, c, e),
                                  conflict_summary |-> summary,
                                  guideline_alignment |-> nm,
                                  surfaced_risks_count |-> surfaced,
                                  k_seconds |-> KSeconds,
                                  weights |-> NormaliseWeights(0, 0, 0, 0)]
                            ELSE [attestations |-> AttMap(g, c, e),
                                  conflict_summary |-> summary,
                                  surfaced_risks_count |-> surfaced,
                                  nice_matches |-> nm]
                    r == CallComputeCrts(args)
                IN /\ attestations' = args.attestations
                   /\ conflict_summary' = args.conflict_summary
                   /\ surfaced_S' = surfaced
                   /\ guideline_alignment' = nm
                   /\ weights' = IF as_app THEN args.weights ELSE weights
                   /\ kwargs' = DOMAIN args
                   /\ crts' = r.value
                   /\ raised' = r.raised
    /\ pc' = "compute_crts"
    /\ UNCHANGED <<query, raw_docs, documents, backend, synthesis, sidebar,
                   guideline_source, guideline_chunks, log, align_args,
                   llm_calls>>

\* align_claims_to_guidelines(claims, guideline_chunks, threshold)
AlignClaims ==
    /\ pc = "idle"
    /\ \E cl \in ClaimArgs, ch \in ChunkArgs, th \in Thresholds :
          LET r == align_claims_to_guidelines(cl, ch, th)
          IN /\ align_args' = [claims |-> cl, guideline_chunks |-> ch, threshold |-> th]
             /\ guideline_alignment' = r.value
             /\ raised' = r.raised
    /\ pc' = "align_claims_to_guidelines"
    /\ UNCHANGED <<query, raw_docs, documents, backend, conflict_summary,
                   synthesis, attestations, sidebar, guideline_source,
                   guideline_chunks, surfaced_S, weights, kwargs, crts, log,
                   llm_calls>>

\* process_uploaded_pdf(uploaded_file)
ProcessUploadedPdf ==
    /\ pc = "idle"
    /\ \E f \in 1..Len(Files) :
          /\ guideline_source' = [type |-> "Upload PDF", file |-> Files[f]]
          /\ guideline_chunks' = process_uploaded_pdf(Files[f])
    /\ pc' = "load_guideline"
    /\ UNCHANGED <<query, raw_docs, documents, backend, conflict_summary,
                   synthesis, attestations, sidebar, guideline_alignment,
                   surfaced_S, weights, kwargs, crts, raised, log, align_args,
                   llm_calls>>

\* scrape_guideline_url(url), lines 58-63: a link outside the allowlist
\* raises ValueError, which is caught, and no chunk is returned; for a link
\* inside it the request is sent and the function waits for the reply
ScrapeGuidelineUrl ==
    /\ pc = "idle"
    /\ \E u \in 1..Len(Urls) :
          /\ guideline_source' = [type |-> "Web Link", url |-> Urls[u]]
          /\ pc' = IF _domain_allowed(Urls[u]) THEN "scrape_63_wait"
                   ELSE "load_guideline"
    /\ guideline_chunks' = <<>>
    /\ UNCHANGED <<query, raw_docs, documents, backend, conflict_summary,
                   synthesis, attestations, sidebar, guideline_alignment,
                   surfaced_S, weights, kwargs, crts, raised, log, align_args,
                   llm_calls>>

\* lines 63-82: requests.get returns or raises (it is called with a timeout
\* of 10 seconds, so it does one of the two) and the page is cut into chunks
ScrapeReply ==
    /\ pc = "scrape_63_wait"
    /\ \E r \in 1..Len(Replies) :
          guideline_chunks' = scrape_guideline_url(guideline_source.url, Replies[r])
    /\ pc' = "load_guideline"
    /\ UNCHANGED <<query, raw_docs, documents, backend, conflict_summary,
                   synthesis, attestations, sidebar, guideline_source,
                   guideline_alignment, surfaced_S, weights, kwargs, crts,
                   raised, log, align_args, llm_calls>>

\* The logging functions of utils/logging.py.  The files keep the rows of
\* the calls before; the clock is read once for each row.
LogCrtsBoth ==
    /\ pc = "idle"
    /\ Len(log) < MaxLog
    /\ query' = LogCalls.log_crts_both.query
    /\ crts' = LogCalls.log_crts_both.crts
    /\ log' = Append(log, log_crts_both(LogCalls.log_crts_both.query,
                                        LogCalls.log_crts_both.crts,
                                        LogCalls.log_crts_both.extra,
                                        Timestamps[ClockReads(log) + 1],
                                        Timestamps[ClockReads(log) + 2]))
    /\ pc' = "log_crts_both"
    /\ UNCHANGED <<raw_docs, documents, backend, conflict_summary, synthesis,
                   attestations, sidebar, guideline_source, guideline_chunks,
                   guideline_alignment, surfaced_S, weights, kwargs, raised,
                   align_args, llm_calls>>

LogCrts ==
    /\ pc = "idle"
    /\ Len(log) < MaxLog
    /\ query' = LogCalls.log_crts.query
    /\ crts' = LogCalls.log_crts.crts
    /\ log' = Append(log, log_crts(LogCalls.log_crts.query, LogCalls.log_crts.crts,
                                   Timestamps[ClockReads(log) + 1]))
    /\ pc' = "log_crts"
    /\ UNCHANGED <<raw_docs, documents, backend, conflict_summary, synthesis,
                   attestations, sidebar, guideline_source, guideline_chunks,
                   guideline_alignment, surfaced_S, weights, kwargs, raised,
                   align_args, llm_calls>>

LogCrtsJsonl ==
    /\ pc = "idle"
    /\ Len(log) < MaxLog
    /\ query' = LogCalls.log_crts_jsonl.query
    /\ crts' = LogCalls.log_crts_jsonl.crts
    /\ log' = Append(log, log_crts_jsonl(LogCalls.log_crts_jsonl.query,
                                         LogCalls.log_crts_jsonl.crts,
                                         LogCalls.log_crts_jsonl.extra,
                                         Timestamps[ClockReads(log) + 1]))
    /\ pc' = "log_crts_jsonl"
    /\ UNCHANGED <<raw_docs, documents, backend, conflict_summary, synthesis,
                   attestations, sidebar, guideline_source, guideline_chunks,
                   guideline_alignment, surfaced_S, weights, kwargs, raised,
                   align_args, llm_calls>>

\* The logging function of modules/logging.py, the module app.py imports
\* its logging from.
ModulesLogCrts ==
    /\ pc = "idle"
    /\ Len(log) < MaxLog
    /\ query' = LogCalls.modules_log_crts.query
    /\ crts' = LogCalls.modules_log_crts.crts
    /\ log' = Append(log, modules_log_crts(LogCalls.modules_log_crts.query,
                                           LogCalls.modules_log_crts.crts,
                                           LocalTimestamps[ClockReads(log) + 1]))
    /\ pc' = "modules_log_crts"
    /\ UNCHANGED <<raw_docs, documents, backend, conflict_summary, synthesis,
                   attestations, sidebar, guideline_source, guideline_chunks,
                   guideline_alignment, surfaced_S, weights, kwargs, raised,
                   align_args, llm_calls>>

\* app.py, lines 37-45: the sidebar's weights
SidebarWeights ==
    /\ pc = "idle"
    /\ \E a, b, c, d \in {0, 1, SliderSteps \div 4, SliderSteps} :
          weights' = NormaliseWeights(a, b, c, d)
    /\ pc' = "weights"
    /\ UNCHANGED <<query, raw_docs, documents, backend, conflict_summary,
                   synthesis, attestations, sidebar, guideline_source,
                   guideline_chunks, guideline_alignment, surfaced_S, kwargs,
                   crts, raised, log, align_args, llm_calls>>

(* ------------------- app.py: one run of the script --------------------- *)
\* The names each of the two logging modules defines.  Line 14 of app.py
\* imports log_crts_both from modules.logging, which is modules/logging.py;
\* utils/logging.py, whose heading names it modules/logging.py, is where
\* log_crts_both is defined.
Exports(m) ==
    IF m = "modules/logging.py" THEN {"log_crts"}
    ELSE {"_row_from_crts", "log_crts", "log_crts_jsonl", "log_crts_both"}
\* the modules of the repository that app.py and the modules it imports
\* import, and the source files: modules/pubmed_retrieval.py (line 9 of
\* app.py) imports config.settings, which is no file of the sources
Imported ==
    {"modules/pubmed_retrieval.py", "config/settings.py",
     "modules/evidence_scoring.py", "modules/conflict_detection.py",
     "modules/attestation.py", "modules/plotting.py", "modules/logging.py",
     "modules/guideline_checker.py", "modules/guideline_retrieval.py",
     "modules/crts.py"}
SourceFiles ==
    {"app.py", "modules/attestation.py", "modules/conflict_detection.py",
     "modules/crts.py", "modules/evidence_network.py",
     "modules/evidence_scoring.py", "modules/guideline_checker.py",
     "modules/guideline_retrieval.py", "modules/logging.py",
     "modules/plotting.py", "modules/pubmed_retrieval.py", "utils/logging.py",
     "utils/plotting.py"}

\* lines 1-16: an import raises ImportError and the run ends before line 18:
\* that of line 9 (ModuleNotFoundError, an ImportError) where config.settings
\* is missing, and that of line 14 wherever line 9 succeeds.  No statement
\* of app.py behind the imports is reached.
AppStart ==
    /\ pc = "idle"
    /\ \/ Imported \ SourceFiles # {}
       \/ "log_crts_both" \notin Exports("modules/logging.py")
    /\ raised' = "ImportError"
    /\ pc' = "app_import_failed"
    /\ UNCHANGED <<query, raw_docs, documents, backend, conflict_summary,
                   synthesis, attestations, sidebar, guideline_source,
                   guideline_chunks, guideline_alignment, surfaced_S, weights,
                   kwargs, crts, log, align_args, llm_calls>>

\* the call is over: the next one starts from fresh values; the log files stay
Return ==
    /\ pc \in {"detect_conflicts", "prioritise_documents", "generate_with_attestation",
               "compute_crts", "weights", "align_claims_to_guidelines",
               "load_guideline", "log_crts_both", "log_crts", "log_crts_jsonl",
               "modules_log_crts",
               "app_import_failed"}
    /\ pc' = "idle"
    /\ query' = <<>> /\ raw_docs' = <<>> /\ documents' = <<>>
    /\ backend' = NoBackend /\ conflict_summary' = NoSummary
    /\ synthesis' = <<>> /\ attestations' = <<>> /\ sidebar' = "none"
    /\ guideline_source' = NoSource
    /\ guideline_chunks' = <<>> /\ guideline_alignment' = <<>>
    /\ surfaced_S' = 0 /\ weights' = NoWeights /\ kwargs' = {}
    /\ crts' = <<>> /\ raised' = "none"
    /\ align_args' = NoAlignArgs /\ llm_calls' = 0
    /\ UNCHANGED log

Next ==
    \/ DetectConflicts
    \/ PrioritiseDocuments
    \/ GenerateWithAttestation
    \/ GenerateInvoke
    \/ GenerateRespond
    \/ GenerateFallback
    \/ ComputeCrts
    \/ AlignClaims
    \/ ProcessUploadedPdf
    \/ ScrapeGuidelineUrl
    \/ ScrapeReply
    \/ SidebarWeights
    \/ AppStart
    \/ Return

Spec == Init /\ [][Next]_vars

\* The calls of the logging functions.  They read and write the log files
\* alone, which no other component reads or writes, so their calls are laid
\* out on their own: a behaviour of the program is one of Spec and one of
\* LogSpec, interleaved.
LogNext ==
    \/ LogCrtsBoth
    \/ LogCrts
    \/ LogCrtsJsonl
    \/ ModulesLogCrts
    \/ Return

LogSpec == Init /\ [][LogNext]_vars

(* --------------------- the calls run to their end ---------------------- *)
\* The changes of position made by GenerateRespond and GenerateFallback: no
\* other step of Next leaves the wait of line 98 or line 116, GenerateRespond
\* is enabled wherever the backend answers or raises, and GenerateFallback
\* wherever pc = "att_116".
RespondStep ==
    /\ pc = "att_98_wait" /\ backend.response.kind # "hang"
    /\ pc' \in {"generate_with_attestation", "att_116"}
FallbackStep == pc = "att_116" /\ pc' = "generate_with_attestation"

\* A Python function runs on from one statement to the next, and a call that
\* returns or raises hands control back: every enabled step of the function
\* is taken.  The fairness of the two steps that compute a result is stated
\* on their change of position.
LiveSpec ==
    /\ Init /\ [][Next]_vars
    /\ WF_vars(GenerateInvoke) /\ WF_pc(RespondStep) /\ WF_pc(FallbackStep)

(* ------------------------------ properties ----------------------------- *)
\* the positions at which the result of generate_with_attestation is in
\* synthesis and attestations, for the documents in `documents`
Generated == pc = "generate_with_attestation"
\* the generative path returned its validated claims
GenerativeReturned ==
    /\ LlmAvailable(backend)
    /\ backend.response.kind = "ok"
    /\ \A i \in 1..Len(backend.response.data.attestations) :
          backend.response.data.attestations[i].v.is_dict
    /\ sidebar = "none"

\* pmid and source_text name a document of the list and a non-empty literal
\* part of its abstract
Grounded(pmid, source_text, docs) ==
    /\ source_text # <<>>
    /\ \E j \in 1..Len(docs) :
          docs[j].pmid = pmid /\ Contains(docs[j].abstract, source_text)

\* C1: every record of the attestation map returned by
\* generate_with_attestation, on the generative and on the deterministic
\* path, cites the pmid of a document of the input list, and its source_text
\* is a non-empty literal substring of that document's abstract.
C1_SubstringInvariant ==
    Generated =>
        \A i \in 1..Len(attestations) :
            Grounded(attestations[i].v.pmid, attestations[i].v.source_text, documents)

\* C1 happens: the generative path returned claims although the response also
\* held a candidate that names no part of any abstract.
C1_Witness ==
    /\ pc = "generate_with_attestation"
    /\ GenerativeReturned
    /\ Len(attestations) >= 1
    /\ \E i \in 1..Len(backend.response.data.attestations) :
          LET meta == backend.response.data.attestations[i].v
          IN ~Grounded(strip(meta.pmid), strip(meta.source_text), documents)

\* the generative step went wrong: the call raised, the text was no JSON, the
\* JSON had the wrong shape, or every candidate failed validation
GenerativeFailed ==
    LET r == backend.response
    IN \/ r.kind \in {"raise", "not_json", "not_object", "att_not_object"}
       \/ /\ r.kind = "ok"
          /\ \/ \E i \in 1..Len(r.data.attestations) : ~r.data.attestations[i].v.is_dict
             \/ \A i \in 1..Len(r.data.attestations) :
                   ~Grounded(strip(r.data.attestations[i].v.pmid),
                             strip(r.data.attestations[i].v.source_text), documents)

\* C2: with a backend configured, whenever the generative step goes wrong
\* generate_with_attestation raises nothing and returns exactly the pair of
\* the deterministic path for the same documents.
C2_FallbackOnFailure ==
    (pc = "generate_with_attestation" /\ LlmAvailable(backend) /\ GenerativeFailed) =>
        /\ raised = "none"
        /\ synthesis = DeterministicFallback(documents).synthesis
        /\ attestations = DeterministicFallback(documents).attestations

\* C2 happens: every candidate of a well-formed response failed validation and
\* the deterministic claims were returned.
C2_Witness ==
    /\ pc = "generate_with_attestation"
    /\ LlmAvailable(backend)
    /\ backend.response.kind = "ok"
    /\ Len(backend.response.data.attestations) >= 2
    /\ GenerativeFailed
    /\ Len(attestations) >= 2
    /\ sidebar = "warning_no_verifiable_claims"

\* the weight w of a record of weights is w/den: they sum to 1
SumToOne(w) == w.alpha + w.beta + w.gamma + w.delta = w.den
InUnit(x) == x \in 0..100

\* C3: for all inputs the aggregator returns sf, crr, ar, ga and the composite
\* crts, each in [0,1] (hundredths 0..100); zero claims give sf = 0 and
\* ga = 0, zero detected risk gives crr = 1, and all-zero weights are replaced
\* by the defaults, which sum to 1.
C3_AllInUnitInterval ==
    /\ pc = "compute_crts" =>
          /\ raised = "none"
          /\ {"sf", "crr", "ar", "ga", "crts"} \subseteq DOMAIN crts
          /\ InUnit(crts.sf) /\ InUnit(crts.crr) /\ InUnit(crts.ar)
          /\ InUnit(crts.ga) /\ InUnit(crts.crts)
          /\ (attestations = <<>> => crts.sf = 0 /\ crts.ga = 0)
          /\ (conflict_summary.risk = 0 => crts.crr = 100)
    /\ pc = "weights" => SumToOne(weights)

\* C4: the record of the aggregator holds the weights renormalised to sum 1
\* (the defaults when they sum to zero or less) and crts, the weighted sum of
\* sf, crr, ar and ga under these weights, rounded to two decimals.
C4_WeightsAndComposite ==
    pc = "compute_crts" =>
        /\ {"weights", "crts"} \subseteq DOMAIN crts
        /\ SumToOne(crts.weights)
        /\ crts.crts = Round2(crts.weights.alpha * crts.sf + crts.weights.beta * crts.crr
                                + crts.weights.gamma * crts.ar
                                + crts.weights.delta * crts.ga,
                              100 * crts.weights.den)

\* C5: called with the keywords of app.py lines 147-154, the aggregator never
\* raises and returns a complete record (sf, crr, ar, ga, L, weights, crts),
\* the record that the scoring step then logs.
C5_ScoringNeverRaises ==
    (pc = "compute_crts" /\ kwargs = PipelineKeywords) =>
        /\ raised = "none"
        /\ {"sf", "crr", "ar", "ga", "L", "weights", "crts"} \subseteq DOMAIN crts

\* the positions at which conflict_summary is the result of detect_conflicts
\* for the documents in `documents`
Tagged == pc = "detect_conflicts"

\* C6: detected holds exactly when the supportive count and the risk count
\* are both positive; the counts are the numbers of documents tagged
\* supportive and tagged risk (a document tagged both is in both), and
\* doc_tags holds the tag of each document, in input order.
C6_ConflictSummary ==
    Tagged =>
        LET n == Len(documents)
            tagged(field) == {i \in 1..n : tag_document(documents[i])[field]}
        IN /\ conflict_summary.detected =
                  (conflict_summary.supportive > 0 /\ conflict_summary.risk > 0)
           /\ conflict_summary.supportive = Cardinality(tagged("supportive"))
           /\ conflict_summary.risk = Cardinality(tagged("risk"))
           /\ Len(conflict_summary.doc_tags) = n
           /\ \A i \in 1..n : conflict_summary.doc_tags[i] = tag_document(documents[i])

\* C6 happens: a document tagged both ways among others, and a conflict
C6_Witness ==
    /\ pc = "detect_conflicts"
    /\ Len(documents) = 3
    /\ conflict_summary.detected
    /\ conflict_summary.supportive = 2 /\ conflict_summary.risk = 2
    /\ \E i \in 1..3 : /\ conflict_summary.doc_tags[i].supportive
                       /\ conflict_summary.doc_tags[i].risk
    /\ \E i \in 1..3 : /\ ~conflict_summary.doc_tags[i].supportive
                       /\ ~conflict_summary.doc_tags[i].risk

\* a document without the priority_score the prioritiser adds
Unscored(d) ==
    [pmid |-> d.pmid, title |-> d.title, abstract |-> d.abstract,
     publication_type |-> d.publication_type, year |-> d.year]
UnscoredList(docs) == [i \in 1..Len(docs) |-> Unscored(docs[i])]
\* the orders in which a list can be supplied
Orders(docs) ==
    {[i \in 1..Len(docs) |-> docs[p[i]]] : p \in Permutations(1..Len(docs))}

\* C7: prioritise_documents returns a permutation of its input in which each
\* document is followed by one of lower score, or of equal score and later
\* id; priority_score is the score of the document for the query.
C7_Ordered ==
    pc = "prioritise_documents" =>
        /\ UnscoredList(documents) \in Orders(raw_docs)
        /\ \A i \in 1..Len(documents) :
              documents[i].priority_score =
                  score_document(Unscored(documents[i]), QueryTerms(query))
        /\ \A i \in 1..(Len(documents) - 1) :
              \/ documents[i].priority_score > documents[i + 1].priority_score
              \/ /\ documents[i].priority_score = documents[i + 1].priority_score
                 /\ StrLess(documents[i].pmid, documents[i + 1].pmid)

\* C7 happens: documents supplied in another order, two of them of equal
\* score, whose ids "100" and "4" are in string order
C7_Witness ==
    /\ pc = "prioritise_documents"
    /\ Len(documents) = 3
    /\ UnscoredList(documents) # raw_docs
    /\ \E i \in 1..2 :
          /\ documents[i].priority_score = documents[i + 1].priority_score
          /\ documents[i].pmid = <<"1", "0", "0">>
          /\ documents[i + 1].pmid = <<"4">>
    /\ \E i \in 1..2 : documents[i].priority_score > documents[i + 1].priority_score

\* C8: for a query and documents of unique ids, prioritise_documents returns
\* the same sequence in whatever order the documents are supplied, and
\* returns its own output unchanged.
C8_OrderIndependent ==
    pc = "prioritise_documents" =>
        /\ \A supplied \in Orders(raw_docs) :
              prioritise_documents(supplied, query) = documents
        /\ prioritise_documents(documents, query) = documents

\* C8 happens: three documents of one score, supplied in an order that is not
\* the order of their ids
C8_Witness ==
    /\ pc = "prioritise_documents"
    /\ Len(raw_docs) = 3
    /\ UnscoredList(documents) # raw_docs
    /\ \A i \in 1..2 : documents[i].priority_score = documents[i + 1].priority_score

\* the candidates of the response, and the entries of the result they explain
Candidates == backend.response.data.attestations
\* candidate c explains entry e when e has c's claim text (completed by a
\* full stop) and c's pmid and source_text, converted by conv
Explains(c, e, conv(_)) ==
    /\ e.k = ClaimText(c.k)
    /\ e.v.pmid = conv(c.v.pmid)
    /\ e.v.source_text = conv(c.v.source_text)
AsSupplied(t) == t
DistinctKeys(d) == \A i, j \in 1..Len(d) : d[i].k = d[j].k => i = j

\* C9, as claimed: on the generative path every entry of the result comes from
\* a candidate that passes validation with its pmid and source_text as
\* supplied, the claim texts are pairwise distinct and there are at most 6.
C9_AcceptedAsSupplied ==
    (pc = "generate_with_attestation" /\ GenerativeReturned) =>
        /\ \A i \in 1..Len(attestations) :
              \E j \in 1..Len(Candidates) :
                  /\ Explains(Candidates[j], attestations[i], AsSupplied)
                  /\ Grounded(Candidates[j].v.pmid, Candidates[j].v.source_text, documents)
        /\ DistinctKeys(attestations)
        /\ Len(attestations) <= MaxClaims

\* C9, amended: every entry comes from a candidate whose pmid and source_text
\* pass validation once the white space around them is removed, and holds
\* these trimmed values; no entry comes from a candidate that fails; the claim
\* texts are pairwise distinct and there are at most 6.
C9_AcceptedAfterTrim ==
    (pc = "generate_with_attestation" /\ GenerativeReturned) =>
        /\ \A i \in 1..Len(attestations) :
              /\ \E j \in 1..Len(Candidates) :
                    /\ Explains(Candidates[j], attestations[i], strip)
                    /\ Grounded(strip(Candidates[j].v.pmid),
                                strip(Candidates[j].v.source_text), documents)
              /\ Grounded(attestations[i].v.pmid, attestations[i].v.source_text, documents)
        /\ DistinctKeys(attestations)
        /\ Len(attestations) <= MaxClaims

\* C9 happens: more than 6 candidates pass, one fails, and 6 are returned
C9_Witness ==
    /\ pc = "generate_with_attestation"
    /\ GenerativeReturned
    /\ Len(attestations) = MaxClaims
    /\ Cardinality({ClaimText(Candidates[j].k) : j \in
            {j \in 1..Len(Candidates) :
                Grounded(strip(Candidates[j].v.pmid),
                         strip(Candidates[j].v.source_text), documents)}}) > MaxClaims
    /\ \E j \in 1..Len(Candidates) :
          ~Grounded(strip(Candidates[j].v.pmid),
                    strip(Candidates[j].v.source_text), documents)

\* C10: the aggregator's GA is the share of the claims whose alignment result
\* is not None, and 0 without claims or without an alignment; for 3 claims
\* and no guideline chunk every claim is aligned to None and GA is 0.
C10_GuidelineAlignment ==
    (pc = "compute_crts" /\ raised = "none") =>
        LET n == Len(attestations)
            aligned == {i \in 1..Len(guideline_alignment) :
                            guideline_alignment[i].v # <<>>}
        IN crts.ga = IF n = 0 \/ guideline_alignment = <<>> THEN 0
                     ELSE Round2(Cardinality(aligned), n)

\* the positions at which crts is a record returned by compute_crts for the
\* attestations, the conflict summary and the surfaced count of the state
Aggregated == pc = "compute_crts" /\ raised = "none"
\* the latency proxy of an attestation map: 2 when some record carries a
\* source_text, 5 otherwise
LatencyOf(att) ==
    IF \E i \in 1..Len(att) : "source_text" \in DOMAIN att[i].v THEN 2 ELSE 5

\* C11: the aggregator's audit responsiveness is min(1, k_seconds / L) for the
\* k_seconds of the pipeline, where L is 2 if some attestation carries a
\* source_text and 5 otherwise, also without attestations; L is in the record.
C11_AuditResponsiveness ==
    Aggregated =>
        /\ crts.L = LatencyOf(attestations)
        /\ crts.ar = IF KSeconds >= crts.L THEN 100 ELSE Round2(KSeconds, crts.L)

\* a record of an attestation map is non-empty
NonEmptyRecord(v) == DOMAIN v # {}
\* the share, in hundredths, of the entries of a map that are non-empty
ShareNonEmpty(att) ==
    IF Len(att) = 0 THEN 0
    ELSE Round2(Cardinality({i \in 1..Len(att) : NonEmptyRecord(att[i].v)}), Len(att))

\* C12: SF of the aggregator is the number of claims with a non-empty
\* attestation record over the number of claims, and 0 without claims; for a
\* map returned by generate_with_attestation it is 1 when the map is non-empty
\* and 0 when it is empty.
C12_SourceFidelity ==
    /\ Aggregated => crts.sf = ShareNonEmpty(attestations)
    /\ pc = "generate_with_attestation" =>
          compute_crts(attestations, NoSummary, 0, <<>>).sf
              = IF attestations = <<>> THEN 0 ELSE 100

\* C12 happens: two of three claims have a non-empty record, SF is 0.67
C12_Witness ==
    /\ Aggregated
    /\ Len(attestations) = 3
    /\ Cardinality({i \in 1..3 : NonEmptyRecord(attestations[i].v)}) = 2
    /\ crts.sf = 67

\* min(1, surfaced / detected) in hundredths, and 1 without detected risk
ReportingRate(surfaced, detected) ==
    IF detected <= 0 \/ surfaced >= detected THEN 100 ELSE Round2(surfaced, detected)

\* C13: CRR of the aggregator is min(1, surfaced / detected) when detected > 0
\* and 1 otherwise, detected being the risk count of the conflict summary,
\* also of a summary returned by detect_conflicts.
C13_ConflictReportingRate ==
    /\ Aggregated => crts.crr = ReportingRate(surfaced_S, conflict_summary.risk)
    /\ pc = "detect_conflicts" =>
          \A s \in 0..MaxCount :
              compute_crts(<<>>, conflict_summary, s, <<>>).crr
                  = ReportingRate(s, conflict_summary.risk)

\* C13 happens: 1 of 3 detected risks surfaced gives 0.33, and more surfaced
\* than detected is capped at 1
C13_Witness ==
    /\ Aggregated
    /\ \/ conflict_summary.risk = 3 /\ surfaced_S = 1 /\ crts.crr = 33
       \/ conflict_summary.risk = 2 /\ surfaced_S = 4 /\ crts.crr = 100

\* the positions at which guideline_alignment is the result of
\* align_claims_to_guidelines for the arguments in align_args
AlignedAlone == pc = "align_claims_to_guidelines"
ClaimsSupplied == IF IsNone(align_args.claims) THEN <<>> ELSE align_args.claims[1]
OneEntryPerClaim ==
    /\ DistinctKeys(guideline_alignment)
    /\ {guideline_alignment[i].k : i \in 1..Len(guideline_alignment)}
           = Range(ClaimsSupplied)

\* C14: called without guideline chunks (none or None) or without claims
\* (none or None), align_claims_to_guidelines raises nothing and maps exactly
\* the supplied claims, each to None; every map it returns has exactly one
\* entry per distinct claim supplied.
C14_NothingToAlign ==
    AlignedAlone =>
        /\ (Falsy(align_args.claims) \/ Falsy(align_args.guideline_chunks)) =>
              /\ raised = "none"
              /\ OneEntryPerClaim
              /\ \A i \in 1..Len(guideline_alignment) : guideline_alignment[i].v = <<>>
        /\ raised = "none" => OneEntryPerClaim

\* the first place of a row of similarities that holds its largest entry
FirstLargest(row) ==
    CHOOSE j \in 1..Len(row) :
        /\ \A k \in 1..Len(row) : ~SimLess(row[j], row[k])
        /\ \A k \in 1..(j - 1) : SimLess(row[k], row[j])

\* C15: for every claim and every non-empty chunk list, the claim is mapped to
\* a result iff its largest similarity to a chunk is at least the threshold;
\* the result then carries source, page and provenance fields of the first
\* chunk that has this largest similarity, and the score rounded; nothing is
\* raised, also when several chunks have the largest similarity.
C15_ThresholdAndFirstMaximum ==
    (AlignedAlone /\ ~Falsy(align_args.claims) /\ ~Falsy(align_args.guideline_chunks)) =>
        /\ raised = "none"
        /\ \A i \in 1..Len(ClaimsSupplied) :
              LET chunks == align_args.guideline_chunks[1]
                  row == cosine_similarity(ClaimsSupplied[i],
                                           [j \in 1..Len(chunks) |-> chunks[j].text])
                  result == Get(guideline_alignment, ClaimsSupplied[i])
                  first == FirstLargest(row)
              IN /\ (result # <<>>) <=> AtLeast(row[first], align_args.threshold)
                 /\ result # <<>> =>
                       /\ \A f \in DOMAIN chunks[first] \ {"text"} :
                             result[1][f] = chunks[first][f]
                       /\ {"source", "page"} \subseteq DOMAIN result[1]
                       /\ result[1].score = SimRound(row[first])

(***************************************************************************)
(* C16  Every call of generate_with_attestation eventually returns: the    *)
(* backend is invoked at most once per call, and a call that has entered   *)
(* the function, also one waiting for a backend that times out, errors or  *)
(* never answers, reaches its return.                                      *)
(***************************************************************************)
InCall == pc \in {"att_98", "att_98_wait", "att_116"}
Returned == pc = "generate_with_attestation"
C16_EventuallyReturns == [](llm_calls <= 1) /\ (InCall ~> Returned)

\* the deterministic path produced the result: no backend was usable, or the
\* generative step gave way to the fallback (which always leaves a message)
DeterministicPath == Generated /\ (~LlmAvailable(backend) \/ sidebar # "none")

\* Position i of t belongs to a separator: a run of white space that starts
\* right after ".", "!" or "?".
Terminal == {".", "!", "?"}
InSeparator(t, i) ==
    /\ t[i] \in WS
    /\ \E a \in 2..i : t[a - 1] \in Terminal /\ \A k \in a..i : t[k] \in WS
\* the spans of t: the maximal runs of positions outside separators, from
\* left to right
SpanStarts(t) ==
    {i \in 1..Len(t) : ~InSeparator(t, i) /\ (i = 1 \/ InSeparator(t, i - 1))}
SpanEnd(t, s) ==
    CHOOSE e \in s..Len(t) :
        /\ \A k \in s..e : ~InSeparator(t, k)
        /\ (e = Len(t) \/ InSeparator(t, e + 1))
NthSpan(t, n) ==
    LET s == CHOOSE i \in SpanStarts(t) :
                 Cardinality({j \in SpanStarts(t) : j < i}) = n - 1
    IN SubSeq(t, s, SpanEnd(t, s))
Spans(t) == [n \in 1..Cardinality(SpanStarts(t)) |-> NthSpan(t, n)]
\* the spans of every abstract of the pool, and the qualifying spans of an
\* abstract: those of more than 30 characters
SpansOfAbstract ==
    [a \in {DocPool[i].abstract : i \in 1..Len(DocPool)} |-> Spans(strip(a))]
QualifyingSpans(abstract) ==
    SelectSeq(SpansOfAbstract[abstract], LAMBDA p : Len(p) > 30)
\* the places a claim of the deterministic path can come from: document d of
\* the first three, span j of its first two qualifying spans
Places(docs) ==
    {<<d, j>> \in (1..3) \X (1..2) :
        d <= Len(docs) /\ j <= Len(QualifyingSpans(docs[d].abstract))}
SpanAt(docs, p) == QualifyingSpans(docs[p[1]].abstract)[p[2]]
\* a claim is its span, with "." appended unless it ends a sentence already
ClaimOf(s) == IF s[Len(s)] \in Terminal THEN s ELSE s \o <<".">>

(***************************************************************************)
(* C17  On the deterministic path the attestation map holds exactly the    *)
(* distinct claims formed from the first two qualifying spans (more than   *)
(* 30 characters, split at sentence-terminal punctuation followed by white *)
(* space) of each of the first three documents; the source_text of an      *)
(* entry is its span verbatim and its pmid that of the document the span   *)
(* came from; later documents contribute nothing; one document whose       *)
(* abstract is two distinct sentences (spans that end in ".", "!" or "?")  *)
(* of at least 31 characters gives exactly 2 entries.                      *)
(***************************************************************************)
C17_DeterministicClaims ==
    DeterministicPath =>
        LET P == Places(documents)
        IN /\ {attestations[i].k : i \in 1..Len(attestations)}
                 = {ClaimOf(SpanAt(documents, p)) : p \in P}
           /\ \A i, j \in 1..Len(attestations) :
                 attestations[i].k = attestations[j].k => i = j
           /\ \A i \in 1..Len(attestations) :
                 \E p \in P :
                    /\ attestations[i].k = ClaimOf(SpanAt(documents, p))
                    /\ attestations[i].v.source_text = SpanAt(documents, p)
                    /\ attestations[i].v.pmid = documents[p[1]].pmid
           /\ (/\ Len(documents) = 1
               /\ Len(SpansOfAbstract[documents[1].abstract]) = 2
               /\ \A n \in 1..2 :
                     LET s == SpansOfAbstract[documents[1].abstract][n]
                     IN Len(s) >= 31 /\ s[Len(s)] \in Terminal
               /\ SpansOfAbstract[documents[1].abstract][1]
                     # SpansOfAbstract[documents[1].abstract][2])
              => Len(attestations) = 2

\* C17 happens: the fallback ran on four documents, the fourth of which has a
\* qualifying span that is no claim of the map, one of the first three has
\* more than two qualifying spans, and two of them share a claim.
C17_Witness ==
    /\ pc = "generate_with_attestation"
    /\ DeterministicPath
    /\ Len(documents) = 4
    /\ \E s \in Range(QualifyingSpans(documents[4].abstract)) :
          \A i \in 1..Len(attestations) : attestations[i].k # ClaimOf(s)
    /\ \E d \in 1..3 : Len(QualifyingSpans(documents[d].abstract)) > 2
    /\ Cardinality(Places(documents)) > Len(attestations)
    /\ Len(attestations) >= 3

\* the first qualifying span of each of the first two documents that has one
LeadingSpans(docs) ==
    LET Has(d) == d <= Len(docs) /\ QualifyingSpans(docs[d].abstract) # <<>>
        First(d) == QualifyingSpans(docs[d].abstract)[1]
    IN (IF Has(1) THEN <<First(1)>> ELSE <<>>) \o (IF Has(2) THEN <<First(2)>> ELSE <<>>)

(***************************************************************************)
(* C18  On the deterministic path the synthesis is the first qualifying    *)
(* span of the first document and the first qualifying span of the second  *)
(* document, joined and followed by the deterministic-extraction marker;   *)
(* no span of the third document is part of it, also when the first or     *)
(* the second document has no qualifying span.                             *)
(***************************************************************************)
C18_SynthesisOfFirstTwo ==
    DeterministicPath =>
        LET lead == LeadingSpans(documents)
        IN synthesis =
              (CASE Len(lead) = 0 -> <<>>
                 [] Len(lead) = 1 -> lead[1]
                 [] Len(lead) = 2 -> lead[1] \o <<" ">> \o lead[2])
              \o DeterministicMarker

\* stem occurs in text starting at a word boundary: at the start of the text
\* or after a character that is no letter, digit or underscore
AtWordBoundary(text, stem) ==
    \E p \in 1..(Len(text) - Len(stem) + 1) :
        /\ SubSeq(text, p, p + Len(stem) - 1) = stem
        /\ (p = 1 \/ text[p - 1] \notin WordChars)
\* the number of distinct safety stems of title+abstract
SafetyStems(doc) ==
    Cardinality({i \in 1..Len(SAFETY_TERMS) :
                    AtWordBoundary(lower(TitleAbstract(doc)), SAFETY_TERMS[i])})
\* the parts of the priority score other than the safety-signal part
OtherParts(doc, q) ==
    LET text == lower(TitleAbstract(doc))
        terms == QueryTerms(q)
    IN SumSeq([i \in 1..Len(terms) |->
                  IF terms[i] # <<>> /\ Contains(text, lower(terms[i]))
                  THEN 200 ELSE 0])
       + SumSeq([i \in 1..Len(doc.publication_type) |->
                  HIGH_VALUE_TYPES(doc.publication_type[i])])
       + 300 * _term_hits(text, SAFETY_STUDY_HINTS)
       + RecencyBoost(doc)

(***************************************************************************)
(* C19  The safety-signal part of a document's priority score is 0.25      *)
(* times the number of distinct safety stems that occur in title+abstract  *)
(* starting at a word boundary: a repeated stem counts once, and a stem    *)
(* that occurs only inside a longer word counts nothing.  Scores are in    *)
(* thousandths.                                                            *)
(***************************************************************************)
C19_SafetySignal ==
    pc = "prioritise_documents" =>
        \A i \in 1..Len(documents) :
            documents[i].priority_score - OtherParts(documents[i], query)
                = 250 * SafetyStems(documents[i])
=============================================================================
